---- MODULE Spec2Model ----
(***************************************************************************)
(* A model of rusticom: the 6502 interpreter (src/src/cpu.rs), the memory  *)
(* bus (src/src/bus.rs) and the PPU register front-end (src/src/ppu).      *)
(*                                                                         *)
(* The CPU struct owns the Bus, which owns the PPU; the model keeps that   *)
(* nesting in one record, `cpu`.  Arrays are kept sparse: a byte that was  *)
(* never written, or that holds 0, is absent from the function's domain.   *)
(* A Rust panic is recorded in the field `panic`; nothing runs after it.   *)
(***************************************************************************)
EXTENDS Integers, Sequences, FiniteSets, TLC

VARIABLES
  cpu,    \* the CPU struct, with the Bus and the PPU it owns
  phase,  \* where the host is: new, loaded, ready, running, returned, panicked
  prev,   \* history: `cpu` before the last action
  act,    \* history: the last action, and the opcode a Step fetched
  prev2,  \* history: `cpu` before the last two actions
  act2,   \* history: the action before the last
  used    \* how often the host has used each of its bounded operations

vars == <<cpu, phase, prev, act, prev2, act2, used>>

(***************************************************************************)
(* Fixed-width arithmetic                                                  *)
(***************************************************************************)
U8 == 256

U16 == 65536

Byte == 0 .. 255

RECURSIVE BitAndN(_, _, _)
BitAndN(a, b, n) ==
  IF n = 0 THEN 0
  ELSE (a % 2) * (b % 2) + 2 * BitAndN(a \div 2, b \div 2, n - 1)

RECURSIVE BitXorN(_, _, _)
BitXorN(a, b, n) ==
  IF n = 0 THEN 0
  ELSE ((a + b) % 2) + 2 * BitXorN(a \div 2, b \div 2, n - 1)

And8(a, b) == BitAndN(a, b, 8)

Xor8(a, b) == BitXorN(a, b, 8)

Or8(a, b) == a + b - BitAndN(a, b, 8)

And16(a, b) == BitAndN(a, b, 16)

Not8(a) == 255 - a

\* u8::wrapping_add / wrapping_sub, u16::wrapping_add
WrapAdd8(a, b) == (a + b) % U8

WrapSub8(a, b) == (a - b + U8) % U8

WrapAdd16(a, b) == (a + b) % U16

\* `x as i8 as u16`: the sign-extended operand of a relative branch
SignExtend(b) == IF b >= 128 THEN b + 65280 ELSE b

\* u16::from_le_bytes([lo, hi]) and to_le_bytes
FromLeBytes(lo, hi) == hi * 256 + lo

LoByte(w) == w % 256

HiByte(w) == w \div 256

\* bitflags: contains / set / insert / remove on a u8 of flags
Contains(flags, f) == And8(flags, f) = f

Insert(flags, f) == Or8(flags, f)

Remove(flags, f) == And8(flags, Not8(f))

SetFlag(flags, f, on) == IF on THEN Insert(flags, f) ELSE Remove(flags, f)

(***************************************************************************)
(* Sparse byte arrays                                                      *)
(***************************************************************************)
NoBytes == [x \in {} |-> 0]

Get(f, a) == IF a \in DOMAIN f THEN f[a] ELSE 0

Put(f, a, d) ==
  IF d = 0 THEN [x \in DOMAIN f \ {a} |-> f[x]]
  ELSE [x \in DOMAIN f \cup {a} |-> IF x = a THEN d ELSE f[x]]

(***************************************************************************)
(* Program constants                                                       *)
(***************************************************************************)
CARRY == 1

ZERO == 2

INTERRUPT_DISABLE == 4

DECIMAL_MODE == 8

BREAK == 16

BREAK2 == 32

OVERFLOW == 64

NEGATIVE == 128

STACK == 256

STACK_RESET == 253

STATUS_RESET == 36

RAM_END == 8191

RAM_MASK == 2047

PPU_END == 16383

PPU_MASK == 8199

ROM_START == 32768

ROM_MASK == 32767

PRG_MIRROR_LEN == 16384

ADDR_MIRROR_MASK == 16383

SPRITE_ZERO_HIT == 64

VBLANK_FLAG == 128

GENERATE_NMI == 128

VRAM_ADDR_INC == 4

RESET_VECTOR == 65532

DOTS_PER_SCANLINE == 341

VBLANK_SCANLINE == 241

SCANLINES_PER_FRAME == 262

OPCODE_LEN ==
  <<
    1, 2, 1, 2, 2, 2, 2, 2, 1, 2, 1, 2, 3, 3, 3, 3,
    2, 2, 1, 2, 2, 2, 2, 2, 1, 3, 1, 3, 3, 3, 3, 3,
    3, 2, 1, 2, 2, 2, 2, 2, 1, 2, 1, 2, 3, 3, 3, 3,
    2, 2, 1, 2, 2, 2, 2, 2, 1, 3, 1, 3, 3, 3, 3, 3,
    1, 2, 1, 2, 2, 2, 2, 2, 1, 2, 1, 2, 3, 3, 3, 3,
    2, 2, 1, 2, 2, 2, 2, 2, 1, 3, 1, 3, 3, 3, 3, 3,
    1, 2, 1, 2, 2, 2, 2, 2, 1, 2, 1, 2, 3, 3, 3, 3,
    2, 2, 1, 2, 2, 2, 2, 2, 1, 3, 1, 3, 3, 3, 3, 3,
    2, 2, 2, 2, 2, 2, 2, 2, 1, 2, 1, 0, 3, 3, 3, 3,
    2, 2, 1, 2, 2, 2, 2, 2, 1, 3, 1, 0, 0, 3, 0, 3,
    2, 2, 2, 2, 2, 2, 2, 2, 1, 2, 1, 2, 3, 3, 3, 3,
    2, 2, 1, 2, 2, 2, 2, 2, 1, 3, 1, 3, 3, 3, 3, 3,
    2, 2, 2, 2, 2, 2, 2, 2, 1, 2, 1, 2, 3, 3, 3, 3,
    2, 2, 1, 2, 2, 2, 2, 2, 1, 3, 1, 3, 3, 3, 3, 3,
    2, 2, 2, 2, 2, 2, 2, 2, 1, 2, 1, 2, 3, 3, 3, 3,
    2, 2, 1, 2, 2, 2, 2, 2, 1, 3, 1, 3, 3, 3, 3, 3 >>

OPCODE_CYCLES ==
  <<
    7, 6, 1, 8, 3, 3, 5, 5, 3, 2, 2, 2, 4, 4, 6, 6,
    2, 5, 1, 8, 4, 4, 6, 6, 2, 4, 2, 7, 4, 4, 7, 7,
    6, 6, 1, 8, 3, 3, 5, 5, 4, 2, 2, 2, 4, 4, 6, 6,
    2, 5, 1, 8, 4, 4, 6, 6, 2, 4, 2, 7, 4, 4, 7, 7,
    6, 6, 1, 8, 3, 3, 5, 5, 3, 2, 2, 2, 3, 4, 6, 6,
    2, 5, 1, 8, 4, 4, 6, 6, 2, 4, 2, 7, 4, 4, 7, 7,
    6, 6, 1, 8, 3, 3, 5, 5, 4, 2, 2, 2, 5, 4, 6, 6,
    2, 5, 1, 8, 4, 4, 6, 8, 2, 4, 2, 7, 4, 4, 7, 7,
    2, 6, 2, 6, 3, 3, 3, 3, 2, 2, 2, 0, 4, 4, 4, 4,
    2, 6, 1, 6, 4, 4, 4, 4, 2, 5, 2, 0, 0, 5, 0, 5,
    2, 6, 2, 6, 3, 3, 3, 3, 2, 2, 2, 2, 4, 4, 4, 4,
    2, 5, 1, 5, 4, 4, 4, 4, 2, 4, 2, 4, 4, 4, 4, 4,
    2, 6, 2, 8, 3, 3, 5, 5, 2, 2, 2, 2, 4, 4, 6, 6,
    2, 5, 1, 8, 4, 4, 6, 6, 2, 4, 2, 7, 4, 4, 7, 7,
    2, 6, 2, 8, 3, 3, 5, 5, 2, 2, 2, 2, 4, 4, 6, 6,
    2, 5, 1, 8, 4, 4, 6, 6, 2, 4, 2, 7, 4, 4, 7, 7 >>

OPCODE_MODE ==
  <<
    "None", "Indirect_X", "None", "Indirect_X", "ZeroPage", "ZeroPage", "ZeroPage", "ZeroPage", "None", "Immediate", "None", "Immediate", "Absolute", "Absolute", "Absolute", "Absolute",
    "None", "Indirect_Y", "None", "Indirect_Y", "ZeroPage_X", "ZeroPage_X", "ZeroPage_X", "ZeroPage_X", "None", "Absolute_Y", "None", "Absolute_Y", "Absolute_X", "Absolute_X", "Absolute_X", "Absolute_X",
    "None", "Indirect_X", "None", "Indirect_X", "ZeroPage", "ZeroPage", "ZeroPage", "ZeroPage", "None", "Immediate", "None", "Immediate", "Absolute", "Absolute", "Absolute", "Absolute",
    "None", "Indirect_Y", "None", "Indirect_Y", "ZeroPage_X", "ZeroPage_X", "ZeroPage_X", "ZeroPage_X", "None", "Absolute_Y", "None", "Absolute_Y", "Absolute_X", "Absolute_X", "Absolute_X", "Absolute_X",
    "None", "Indirect_X", "None", "Indirect_X", "ZeroPage", "ZeroPage", "ZeroPage", "ZeroPage", "None", "Immediate", "None", "Immediate", "None", "Absolute", "Absolute", "Absolute",
    "None", "Indirect_Y", "None", "Indirect_Y", "ZeroPage_X", "ZeroPage_X", "ZeroPage_X", "ZeroPage_X", "None", "Absolute_Y", "None", "Absolute_Y", "Absolute_X", "Absolute_X", "Absolute_X", "Absolute_X",
    "None", "Indirect_X", "None", "Indirect_X", "ZeroPage", "ZeroPage", "ZeroPage", "ZeroPage", "None", "Immediate", "None", "Immediate", "None", "Absolute", "Absolute", "Absolute",
    "None", "Indirect_Y", "None", "Indirect_Y", "ZeroPage_X", "ZeroPage_X", "ZeroPage_X", "ZeroPage_X", "None", "Absolute_Y", "None", "Absolute_Y", "Absolute_X", "Absolute_X", "Absolute_X", "Absolute_X",
    "Immediate", "Indirect_X", "Immediate", "Indirect_X", "ZeroPage", "ZeroPage", "ZeroPage", "ZeroPage", "None", "Immediate", "None", "Missing", "Absolute", "Absolute", "Absolute", "Absolute",
    "None", "Indirect_Y", "None", "Indirect_Y", "ZeroPage_X", "ZeroPage_X", "ZeroPage_Y", "ZeroPage_Y", "None", "Absolute_Y", "None", "Missing", "Missing", "Absolute_X", "Missing", "Absolute_Y",
    "Immediate", "Indirect_X", "Immediate", "Indirect_X", "ZeroPage", "ZeroPage", "ZeroPage", "ZeroPage", "None", "Immediate", "None", "Immediate", "Absolute", "Absolute", "Absolute", "Absolute",
    "None", "Indirect_Y", "None", "Indirect_Y", "ZeroPage_X", "ZeroPage_X", "ZeroPage_Y", "ZeroPage_Y", "None", "Absolute_Y", "None", "Absolute_Y", "Absolute_X", "Absolute_X", "Absolute_Y", "Absolute_Y",
    "Immediate", "Indirect_X", "Immediate", "Indirect_X", "ZeroPage", "ZeroPage", "ZeroPage", "ZeroPage", "None", "Immediate", "None", "Immediate", "Absolute", "Absolute", "Absolute", "Absolute",
    "None", "Indirect_Y", "None", "Indirect_Y", "ZeroPage_X", "ZeroPage_X", "ZeroPage_X", "ZeroPage_X", "None", "Absolute_Y", "None", "Absolute_Y", "Absolute_X", "Absolute_X", "Absolute_X", "Absolute_X",
    "Immediate", "Indirect_X", "Immediate", "Indirect_X", "ZeroPage", "ZeroPage", "ZeroPage", "ZeroPage", "None", "Immediate", "None", "Immediate", "Absolute", "Absolute", "Absolute", "Absolute",
    "None", "Indirect_Y", "None", "Indirect_Y", "ZeroPage_X", "ZeroPage_X", "ZeroPage_X", "ZeroPage_X", "None", "Absolute_Y", "None", "Absolute_Y", "Absolute_X", "Absolute_X", "Absolute_X", "Absolute_X" >>

OpLen(code) == OPCODE_LEN[code + 1]

OpCycles(code) == OPCODE_CYCLES[code + 1]

OpMode(code) == OPCODE_MODE[code + 1]

\* OPCODES_MAP.get(&code): the table has no entry for the bytes of length 0
InTable(code) == OPCODE_MODE[code + 1] # "Missing"

(***************************************************************************)
(* PPU registers (src/src/ppu)                                             *)
(***************************************************************************)
\* AddressRegister::get_addr
get_addr(a) == a.hi_value * 256 + a.lo_value

\* AddressRegister::set
addr_set(a, v) == [a EXCEPT !.hi_value = HiByte(v), !.lo_value = LoByte(v)]

\* an address register that is never mirrored down
addr_unmirrored(a) == a

\* the mirror-down that update and increment both end with
addr_mirror(a) ==
  IF get_addr(a) > ADDR_MIRROR_MASK
  THEN addr_set(a, And16(get_addr(a), ADDR_MIRROR_MASK))
  ELSE a

\* AddressRegister::update: the register's own hi_ptr picks the byte
addr_update(a, addr_part) ==
  [addr_mirror(IF a.hi_ptr THEN [a EXCEPT !.hi_value = addr_part]
               ELSE [a EXCEPT !.lo_value = addr_part])
     EXCEPT !.hi_ptr = ~a.hi_ptr]

\* AddressRegister::increment
addr_increment(a, inc) ==
  addr_mirror([a EXCEPT !.lo_value = (a.lo_value + inc) % U8,
                        !.hi_value = IF a.lo_value + inc >= U8
                                     THEN WrapAdd8(@, 1) ELSE @])

\* ControlRegister::vram_addr_inc
vram_addr_inc(ctrl) == IF Contains(ctrl, VRAM_ADDR_INC) THEN 32 ELSE 1

\* ScrollRegister::update
scroll_update(s, value, w) ==
  IF w THEN [s EXCEPT !.y = value] ELSE [s EXCEPT !.x = value]

\* PPU::new
PPU_new(chr_rom, mirroring) ==
  [ chr_rom |-> chr_rom, mirroring |-> mirroring,
    vram |-> NoBytes, oam_data |-> NoBytes, oam_addr |-> 0,
    palette_table |-> NoBytes, cycles |-> 0, scanline |-> 0,
    internal_data_buf |-> 0,
    addr |-> [hi_value |-> 0, lo_value |-> 0, hi_ptr |-> TRUE],
    ctrl |-> 0, mask |-> 0, status |-> 0,
    scroll |-> [x |-> 0, y |-> 0],
    w |-> TRUE, nmi_interrupt |-> FALSE ]

\* what a PPU or bus operation hands back: the new state, the value read
\* and the panic it ended in ("none" when it returned)
Res(st, v, panic) == [st |-> st, v |-> v, panic |-> panic]

\* PPU::write_to_ppu_scroll
write_to_ppu_scroll(p, value) ==
  [p EXCEPT !.scroll = scroll_update(@, value, p.w), !.w = ~p.w]

\* PPU::write_to_ppu_addr
write_to_ppu_addr(p, value) ==
  [p EXCEPT !.addr = addr_update(@, value), !.w = ~p.w]

\* PPU::write_to_ppu_ctrl
write_to_ppu_ctrl(p, value) ==
  [p EXCEPT !.ctrl = value,
            !.nmi_interrupt =
               IF ~Contains(p.ctrl, GENERATE_NMI) /\ Contains(value, GENERATE_NMI)
                  /\ Contains(p.status, VBLANK_FLAG)
               THEN TRUE ELSE @]

\* PPU::write_to_ppu_mask
write_to_ppu_mask(p, value) == [p EXCEPT !.mask = value]

\* an increment that ignores CTRL bit 2
inc_vram_addr_by_one(p) == [p EXCEPT !.addr = addr_increment(@, 1)]

\* PPU::inc_vram_addr
inc_vram_addr(p) == [p EXCEPT !.addr = addr_increment(@, vram_addr_inc(p.ctrl))]

\* a PPU that folds every cartridge's nametables as a Vertical one's
name_table_index_unfolded(mirroring, vram_index) == vram_index % 2048

\* the `match (&self.mirroring, name_table)` of PPU::mirror_vram_addr
name_table_index(mirroring, vram_index) ==
  CASE mirroring = "Vertical" /\ vram_index \div 1024 \in {2, 3} -> vram_index - 2048
    [] mirroring = "Horizontal" /\ vram_index \div 1024 = 2 -> vram_index - 1024
    [] mirroring = "Horizontal" /\ vram_index \div 1024 = 1 -> vram_index - 1024
    [] mirroring = "Horizontal" /\ vram_index \div 1024 = 3 -> vram_index - 2048
    [] OTHER -> vram_index

\* PPU::mirror_vram_addr: the index into the 2 KiB vram array
mirror_vram_addr(p, addr) == name_table_index(p.mirroring, And16(addr, 49151) - 8192)

\* `self.internal_data_buf = self.vram[index]` of PPU::read_data
read_vram(p1, index) ==
  IF index >= 2048 THEN Res(p1, 0, "index out of bounds: vram")
  ELSE Res([p1 EXCEPT !.internal_data_buf = Get(p1.vram, index)],
           p1.internal_data_buf, "none")

\* the `match addr` of PPU::read_data, p1 being the PPU after inc_vram_addr
read_data_at(p1, addr) ==
  CASE addr <= 8191 ->
         IF addr >= p1.chr_rom.len
         THEN Res(p1, 0, "index out of bounds: chr_rom")
         ELSE Res([p1 EXCEPT !.internal_data_buf = Get(p1.chr_rom.bytes, addr)],
                  p1.internal_data_buf, "none")
    [] addr \in 8192 .. 12287 -> read_vram(p1, mirror_vram_addr(p1, addr))
    [] addr \in 12288 .. 16127 ->
         Res(p1, 0, "addr space 0x3000..0x3EFF is not expected to be used by PPU")
    [] addr \in 16128 .. 16383 ->
         IF addr - 16128 >= 32
         THEN Res(p1, 0, "index out of bounds: palette_table")
         ELSE Res(p1, Get(p1.palette_table, addr - 16128), "none")
    [] OTHER -> Res(p1, 0, "Unexpected PPU access to mirrored space")

\* PPU::read_data: the address is advanced first, then the old one is used
read_data(p) == read_data_at(inc_vram_addr(p), get_addr(p.addr))

\* `self.vram[index] = value` of PPU::write_data
write_vram(p, index, value) ==
  IF index >= 2048 THEN Res(p, 0, "index out of bounds: vram")
  ELSE Res([p EXCEPT !.vram = Put(@, index, value)], 0, "none")

\* the `match addr` of PPU::write_data
write_data_at(p, addr, value) ==
  CASE addr <= 8191 -> Res(p, 0, "none")
    [] addr \in 8192 .. 12287 -> write_vram(p, mirror_vram_addr(p, addr), value)
    [] addr \in 12288 .. 16127 -> Res(p, 0, "write to illegal PPU area")
    [] addr \in 16128 .. 16383 ->
         IF addr - 16128 >= 32
         THEN Res(p, 0, "index out of bounds: palette_table")
         ELSE Res([p EXCEPT !.palette_table = Put(@, addr - 16128, value)], 0, "none")
    [] OTHER -> Res(p, 0, "Unexpected PPU access to mirrored space")

\* the inc_vram_addr that PPU::write_data ends with, unless it panicked
then_inc_vram_addr(r) ==
  IF r.panic = "none" THEN Res(inc_vram_addr(r.st), 0, "none") ELSE r

\* PPU::write_data
write_data(p, value) == then_inc_vram_addr(write_data_at(p, get_addr(p.addr), value))

\* a STATUS read that leaves VBLANK as it was
read_status_keeping_vblank(p) == Res([p EXCEPT !.w = FALSE], p.status, "none")

\* PPU::read_status
read_status(p) ==
  Res([p EXCEPT !.w = FALSE, !.status = Remove(@, VBLANK_FLAG)], p.status, "none")

\* PPU::read_oam_data
read_oam_data(p) == Res(p, Get(p.oam_data, p.oam_addr), "none")

\* PPU::write_oam_data: stops at its todo!() before it stores anything
write_oam_data(p, value) == Res(p, 0, "not yet implemented: OAMDATA caveats")

\* the `if self.scanline >= 262` of PPU::tick
end_of_frame(p1) ==
  IF p1.scanline >= SCANLINES_PER_FRAME
  THEN Res([p1 EXCEPT !.scanline = 0, !.status = Remove(@, VBLANK_FLAG)],
           TRUE, "none")
  ELSE Res(p1, FALSE, "none")

\* the `if self.scanline == 241` of PPU::tick, the scanline being counted already
start_of_vblank(p1) ==
  IF p1.scanline = VBLANK_SCANLINE /\ Contains(p1.ctrl, GENERATE_NMI)
  THEN [p1 EXCEPT !.status = Insert(@, VBLANK_FLAG), !.nmi_interrupt = TRUE]
  ELSE p1

\* a tick that forgets `self.cycles -= 341`
PPU_tick_without_wrap(p, cycles) ==
  IF p.cycles + cycles >= DOTS_PER_SCANLINE
  THEN end_of_frame(start_of_vblank([p EXCEPT !.cycles = @ + cycles, !.scanline = @ + 1]))
  ELSE Res([p EXCEPT !.cycles = @ + cycles], FALSE, "none")

\* PPU::tick: v is the frame_complete it returns
PPU_tick(p, cycles) ==
  IF p.cycles + cycles >= DOTS_PER_SCANLINE
  THEN end_of_frame(start_of_vblank(
         [p EXCEPT !.cycles = @ + cycles - DOTS_PER_SCANLINE, !.scanline = @ + 1]))
  ELSE Res([p EXCEPT !.cycles = @ + cycles], FALSE, "none")

(***************************************************************************)
(* Bus (src/src/bus.rs)                                                    *)
(***************************************************************************)
\* Bus::new
Bus_new(rom) ==
  [ cpu_vram |-> NoBytes, cycles |-> 0, prg_rom |-> rom.prg_rom,
    ppu |-> PPU_new(rom.chr_rom, rom.screen_mirroring),
    allow_rom_writes |-> FALSE ]

\* lift a PPU result into the bus that owns the PPU
InBus(b, r) == Res([b EXCEPT !.ppu = r.st], r.v, r.panic)

\* `self.prg_rom[mask_apply as usize]`
prg_rom_at(b, index) ==
  IF index >= b.prg_rom.len THEN Res(b, 0, "index out of bounds: prg_rom")
  ELSE Res(b, Get(b.prg_rom.bytes, index), "none")

\* a PRG ROM arm that never folds a 16 KiB ROM into the upper half
rom_read_unmirrored(b, addr) == prg_rom_at(b, And16(addr, ROM_MASK))

\* Bus::mem_read, PRG ROM arm
rom_read(b, addr) ==
  prg_rom_at(b, IF b.prg_rom.len = PRG_MIRROR_LEN /\ addr >= PRG_MIRROR_LEN
                THEN And16(addr, ROM_MASK) % PRG_MIRROR_LEN
                ELSE And16(addr, ROM_MASK))

\* a bus whose PPU registers have no mirrors: 0x2008-0x3FFF reads as open bus
Bus_mem_read_unmirrored(b, addr) ==
  CASE addr <= RAM_END -> Res(b, Get(b.cpu_vram, And16(addr, RAM_MASK)), "none")
    [] addr \in {8192, 8193, 8195, 8197, 8198, 16404} ->
         Res(b, 0, "Attempt to read from write-only PPU address")
    [] addr = 8194 -> InBus(b, read_status(b.ppu))
    [] addr = 8196 -> InBus(b, read_oam_data(b.ppu))
    [] addr = 8199 -> InBus(b, read_data(b.ppu))
    [] addr >= ROM_START -> rom_read(b, addr)
    [] OTHER -> Res(b, 0, "none")

\* Bus::mem_read
RECURSIVE Bus_mem_read(_, _)
Bus_mem_read(b, addr) ==
  CASE addr <= RAM_END -> Res(b, Get(b.cpu_vram, And16(addr, RAM_MASK)), "none")
    [] addr \in {8192, 8193, 8195, 8197, 8198, 16404} ->
         Res(b, 0, "Attempt to read from write-only PPU address")
    [] addr = 8194 -> InBus(b, read_status(b.ppu))
    [] addr = 8196 -> InBus(b, read_oam_data(b.ppu))
    [] addr = 8199 -> InBus(b, read_data(b.ppu))
    [] addr \in 8200 .. PPU_END -> Bus_mem_read(b, And16(addr, PPU_MASK))
    [] addr >= ROM_START -> rom_read(b, addr)
    [] OTHER -> Res(b, 0, "none")

\* `self.prg_rom[mask_apply as usize] = data`
prg_rom_store(b, index, data) ==
  IF index >= b.prg_rom.len THEN Res(b, 0, "index out of bounds: prg_rom")
  ELSE Res([b EXCEPT !.prg_rom.bytes = Put(@, index, data)], 0, "none")

\* a PRG ROM arm that stores whatever allow_rom_writes says
rom_write_unguarded(b, addr, data) == prg_rom_store(b, And16(addr, ROM_MASK), data)

\* Bus::mem_write, PRG ROM arm
rom_write(b, addr, data) ==
  IF b.allow_rom_writes THEN prg_rom_store(b, And16(addr, ROM_MASK), data)
  ELSE Res(b, 0, "Attempted to write to ROM!")

\* Bus::mem_write, 0x4014 arm: the slice, the copy, then todo!()
oam_dma(b, data) ==
  IF data * 256 + 256 > 2048
  THEN Res(b, 0, "range end index out of range: cpu_vram")
  ELSE Res([b EXCEPT !.ppu.oam_data =
              [i \in {j \in 0 .. 255 : (data * 256 + j) \in DOMAIN b.cpu_vram}
                 |-> b.cpu_vram[data * 256 + i]]],
           0, "not yet implemented: should take 513 or 514 cycles")

\* Bus::mem_write
RECURSIVE Bus_mem_write(_, _, _)
Bus_mem_write(b, addr, data) ==
  CASE addr <= RAM_END ->
         Res([b EXCEPT !.cpu_vram = Put(@, And16(addr, RAM_MASK), data)], 0, "none")
    [] addr = 8192 -> Res([b EXCEPT !.ppu = write_to_ppu_ctrl(@, data)], 0, "none")
    [] addr = 8193 -> Res([b EXCEPT !.ppu = write_to_ppu_mask(@, data)], 0, "none")
    [] addr = 8195 -> Res([b EXCEPT !.ppu.oam_addr = data], 0, "none")
    [] addr = 8197 -> Res([b EXCEPT !.ppu = write_to_ppu_scroll(@, data)], 0, "none")
    [] addr = 8198 -> Res([b EXCEPT !.ppu = write_to_ppu_addr(@, data)], 0, "none")
    [] addr = 8199 -> InBus(b, write_data(b.ppu, data))
    [] addr \in 8200 .. PPU_END -> Bus_mem_write(b, And16(addr, PPU_MASK), data)
    [] addr = 16404 -> oam_dma(b, data)
    [] addr >= ROM_START -> rom_write(b, addr, data)
    [] OTHER -> Res(b, 0, "none")

\* Bus::tick: `cycles * 3` is a u8 product
Bus_tick(b, cycles, overflow_checks) ==
  IF cycles * 3 >= U8 /\ overflow_checks
  THEN Res([b EXCEPT !.cycles = @ + cycles], FALSE, "attempt to multiply with overflow")
  ELSE Res([b EXCEPT !.cycles = @ + cycles,
                     !.ppu = PPU_tick(@, (cycles * 3) % U8).st], FALSE, "none")

\* Bus::poll_nmi_status
poll_nmi_status == Res(FALSE, FALSE, "not yet implemented: Get nmi status from ppu")

(***************************************************************************)
(* CPU (src/src/cpu.rs)                                                    *)
(*                                                                         *)
(* Besides the struct's fields the record carries `panic`, the panic the   *)
(* thread ended in ("none" while it runs), and `overflow_checks`, the      *)
(* build profile: with it an overflowing `+`, `+=` or `*` panics, without  *)
(* it the result wraps.                                                    *)
(***************************************************************************)
\* CPU::new
CPU_new(bus, overflow_checks) ==
  [ register_a |-> 0, register_x |-> 0, register_y |-> 0,
    stack_pointer |-> STACK_RESET, status |-> STATUS_RESET,
    program_counter |-> 0, bus |-> bus, enable_decimal |-> FALSE,
    pause |-> FALSE, panic |-> "none", overflow_checks |-> overflow_checks ]

Ok(c) == c.panic = "none"

\* nothing is assigned once the thread has panicked
Upd(c, c2) == IF Ok(c) THEN c2 ELSE c

Panic(c, why) == Upd(c, [c EXCEPT !.panic = why])

\* a checked u16 `+`: panics under overflow checks, wraps without
Add16(c, a, b) ==
  IF a + b >= U16 /\ c.overflow_checks
  THEN Res(Panic(c, "attempt to add with overflow"), 0, "overflow")
  ELSE Res(c, (a + b) % U16, "none")

\* a checked u16 `-`
Sub16(c, a, b) ==
  IF a < b /\ c.overflow_checks
  THEN Res(Panic(c, "attempt to subtract with overflow"), 0, "overflow")
  ELSE Res(c, (a - b + U16) % U16, "none")

\* a checked u8 `+`
Add8(c, a, b) ==
  IF a + b >= U8 /\ c.overflow_checks
  THEN Res(Panic(c, "attempt to add with overflow"), 0, "overflow")
  ELSE Res(c, (a + b) % U8, "none")

\* lift a bus result into the CPU that owns the bus
InCpu(c, r) == Res([c EXCEPT !.bus = r.st, !.panic = r.panic], r.v, r.panic)

\* impl Mem for CPU: mem_read
mem_read(c, addr) ==
  IF Ok(c) THEN InCpu(c, Bus_mem_read(c.bus, addr)) ELSE Res(c, 0, c.panic)

\* impl Mem for CPU: mem_write
mem_write(c, addr, data) ==
  IF Ok(c) THEN InCpu(c, Bus_mem_write(c.bus, addr, data)).st ELSE c

\* u16::from_le_bytes([lo, hi]) of two reads made one after the other
Word(lo, hi) == Res(hi.st, FromLeBytes(lo.v, hi.v), hi.st.panic)

\* the second read of a two-byte read: `lo` is the first read's result
then_read(lo, addr) == Word(lo, mem_read(lo.st, addr))

\* Mem::mem_read_u16
mem_read_u16(c, pos) == then_read(mem_read(c, pos), WrapAdd16(pos, 1))

\* Mem::mem_write_u16
mem_write_u16(c, pos, data) ==
  mem_write(mem_write(c, pos, LoByte(data)), WrapAdd16(pos, 1), HiByte(data))

\* `self.program_counter = <result>`
set_program_counter(r) == Upd(r.st, [r.st EXCEPT !.program_counter = r.v])

\* a reset that forgets `self.register_x = 0`
reset_keeping_x(c) ==
  set_program_counter(
    mem_read_u16([c EXCEPT !.register_a = 0, !.register_y = 0,
                           !.stack_pointer = STACK_RESET, !.status = STATUS_RESET],
                 RESET_VECTOR))

\* CPU::reset
reset(c) ==
  set_program_counter(
    mem_read_u16([c EXCEPT !.register_a = 0, !.register_x = 0, !.register_y = 0,
                           !.stack_pointer = STACK_RESET, !.status = STATUS_RESET],
                 RESET_VECTOR))

\* `self.mem_write(addr + i, program[i])`, the sum being in `sum`
write_program_byte(sum, data) == mem_write(sum.st, sum.v, data)

\* CPU::load_at: the program's bytes, then the reset vector
RECURSIVE load_bytes(_, _, _, _)
load_bytes(c, program, addr, i) ==
  IF i > Len(program) \/ ~Ok(c) THEN c
  ELSE load_bytes(write_program_byte(Add16(c, addr, i - 1), program[i]),
                  program, addr, i + 1)

load_at(c, program, addr) ==
  mem_write_u16(load_bytes(c, program, addr, 1), RESET_VECTOR, addr)

\* CPU::toggle_pause
toggle_pause(c) == [c EXCEPT !.pause = ~c.pause]

\* `pos.wrapping_add(register)` on a u8 and on a u16, pos being a read's result
plus8(pos, reg) == Res(pos.st, WrapAdd8(pos.v, reg), pos.panic)

plus16(pos, reg) == Res(pos.st, WrapAdd16(pos.v, reg), pos.panic)

\* `self.mem_read_u16(addr)`, addr being a read's result
deref_u16(addr) == mem_read_u16(addr.st, addr.v)

\* an (Indirect,X) pointer whose second byte is read at ptr + 1 without the wrap
read_zero_page_word_unwrapped(c, ptr) == then_read(mem_read(c, ptr), ptr + 1)

\* Indirect_X: the two reads at ptr and ptr.wrapping_add(1)
read_zero_page_word(c, ptr) == then_read(mem_read(c, ptr), WrapAdd8(ptr, 1))

indirect_x(base_addr, register_x) ==
  read_zero_page_word(base_addr.st, WrapAdd8(base_addr.v, register_x))

\* Indirect_Y: the reads at base and base.wrapping_add(1), then `+ register_y`
indirect_y(base_addr, register_y) ==
  plus16(read_zero_page_word(base_addr.st, base_addr.v), register_y)

\* CPU::resolve_address
resolve_address(c, mode, base) ==
  CASE mode = "ZeroPage" -> mem_read(c, base)
    [] mode = "Absolute" -> mem_read_u16(c, base)
    [] mode = "ZeroPage_X" -> plus8(mem_read(c, base), c.register_x)
    [] mode = "ZeroPage_Y" -> plus8(mem_read(c, base), c.register_y)
    [] mode = "Absolute_X" -> plus16(mem_read_u16(c, base), c.register_x)
    [] mode = "Absolute_Y" -> plus16(mem_read_u16(c, base), c.register_y)
    [] mode = "Indirect" -> deref_u16(mem_read_u16(c, base))
    [] mode = "Indirect_X" -> indirect_x(mem_read(c, base), c.register_x)
    [] mode = "Indirect_Y" -> indirect_y(mem_read(c, base), c.register_y)
    [] OTHER -> Res(Panic(c, "mode is not supported"), 0, "mode is not supported")

\* CPU::get_operand_address
get_operand_address(c, mode) ==
  IF mode = "Immediate" THEN Res(c, c.program_counter, c.panic)
  ELSE resolve_address(c, mode, c.program_counter)

\* a byte read at an operand address, with that address
Operand(addr, r) == [st |-> r.st, v |-> r.v, addr |-> addr]

read_operand(addr) == Operand(addr.v, mem_read(addr.st, addr.v))

\* the operand byte: `self.mem_read(self.get_operand_address(mode))`
operand(c, mode) == read_operand(get_operand_address(c, mode))

\* CPU::update_zero_and_negative_flags
update_zero_and_negative_flags(c, result) ==
  Upd(c, [c EXCEPT !.status =
            SetFlag(SetFlag(@, ZERO, result = 0), NEGATIVE, And8(result, 128) # 0)])

(***************************************************************************)
(* Stack                                                                   *)
(***************************************************************************)
\* `self.stack_pointer = self.stack_pointer.wrapping_sub(1)`
stack_down(c) == Upd(c, [c EXCEPT !.stack_pointer = WrapSub8(@, 1)])

\* `self.stack_pointer = self.stack_pointer.wrapping_add(1)`
stack_up(c) == Upd(c, [c EXCEPT !.stack_pointer = WrapAdd8(@, 1)])

\* a push that moves the stack pointer before it writes
stack_push_after_decrement(c, data) ==
  mem_write(stack_down(c), STACK + WrapSub8(c.stack_pointer, 1), data)

\* CPU::stack_push
stack_push(c, data) == stack_down(mem_write(c, STACK + c.stack_pointer, data))

\* CPU::stack_push_u16: high byte, then low byte
stack_push_u16(c, data) == stack_push(stack_push(c, HiByte(data)), LoByte(data))

\* `self.mem_read(STACK.wrapping_add(self.stack_pointer as u16))`
read_stack_top(c) == mem_read(c, WrapAdd16(STACK, c.stack_pointer))

\* CPU::stack_pop
stack_pop(c) == read_stack_top(stack_up(c))

\* the second pop of CPU::stack_pop_u16
then_pop(lo) == Word(lo, stack_pop(lo.st))

\* CPU::stack_pop_u16: low byte, then high byte
stack_pop_u16(c) == then_pop(stack_pop(c))

\* CPU::php
php(c) == stack_push(c, Insert(Insert(c.status, BREAK), BREAK2))

\* `self.register_a = <byte popped>` and the flags of CPU::pla
load_a(r) ==
  update_zero_and_negative_flags(Upd(r.st, [r.st EXCEPT !.register_a = r.v]), r.v)

\* CPU::pla
pla(c) == load_a(stack_pop(c))

\* a PLP or RTI that forgets `self.status.insert(StatusFlags::BREAK2)`
load_status_without_break2(r) ==
  Upd(r.st, [r.st EXCEPT !.status = Remove(r.v, BREAK)])

\* a PLP that forgets `self.status.remove(StatusFlags::BREAK)`
load_status_keeping_break(r) ==
  Upd(r.st, [r.st EXCEPT !.status = Insert(r.v, BREAK2)])

\* `self.status = from_bits_truncate(<byte popped>)`, BREAK removed, BREAK2 inserted
load_status(r) ==
  Upd(r.st, [r.st EXCEPT !.status = Insert(Remove(r.v, BREAK), BREAK2)])

\* CPU::plp
plp(c) == load_status(stack_pop(c))

(***************************************************************************)
(* Instructions                                                            *)
(***************************************************************************)
SetA(c, v) == update_zero_and_negative_flags(Upd(c, [c EXCEPT !.register_a = v]), v)

SetX(c, v) == update_zero_and_negative_flags(Upd(c, [c EXCEPT !.register_x = v]), v)

SetY(c, v) == update_zero_and_negative_flags(Upd(c, [c EXCEPT !.register_y = v]), v)

SetStatus(c, f, on) == Upd(c, [c EXCEPT !.status = SetFlag(@, f, on)])

\* a binary add that forgets the carry out of `register_a + carry_bit`
binary_add_second_carry_only(c, arg) ==
  LET carry_bit == And8(CARRY, c.status)
      carry_in == (c.register_a + carry_bit) % U8
      carry_b == carry_in + arg >= U8
      tmp == (carry_in + arg) % U8
      v == And8(And8(Xor8(c.register_a, tmp), Xor8(arg, tmp)), 128) # 0
  IN Upd(c, [c EXCEPT !.status = SetFlag(SetFlag(@, CARRY, carry_b), OVERFLOW, v),
                      !.register_a = tmp])

\* CPU::binary_add
binary_add(c, arg) ==
  LET carry_bit == And8(CARRY, c.status)
      carry_a == c.register_a + carry_bit >= U8
      carry_in == (c.register_a + carry_bit) % U8
      carry_b == carry_in + arg >= U8
      tmp == (carry_in + arg) % U8
      v == And8(And8(Xor8(c.register_a, tmp), Xor8(arg, tmp)), 128) # 0
  IN Upd(c, [c EXCEPT !.status = SetFlag(SetFlag(@, CARRY, carry_a \/ carry_b),
                                          OVERFLOW, v),
                      !.register_a = tmp])

\* CPU::bcd_add
bcd_add(c, arg) ==
  LET carry_bit == And8(CARRY, c.status)
      a == c.register_a
      v == arg
      lo == And8(a, 15) + And8(v, 15) + carry_bit
      lo2 == IF lo > 9 THEN And16(lo + 6, 15) + 16 ELSE lo
      tmp == lo2 + And8(a, 240) + And8(v, 240)
      o == And16(And16(U16 - 1 - BitXorN(a, v, 16), BitXorN(a, tmp, 16)), 128) # 0
      tmp2 == IF tmp > 144 THEN tmp + 96 ELSE tmp
  IN Upd(c, [c EXCEPT !.status = SetFlag(SetFlag(@, OVERFLOW, o), CARRY, tmp2 > 99),
                      !.register_a = And16(tmp2, 255)])

\* CPU::bcd_sub
bcd_sub(c, arg) ==
  LET carry_bit == IF Contains(c.status, CARRY) THEN 1 ELSE 0
      n_carry_bit == 1 - carry_bit
      a == c.register_a
      v == arg
      lo == (And8(a, 15) - And8(v, 15) - n_carry_bit + U16) % U16
      lo2 == IF And16(lo, 16) = 16 THEN lo - 6 ELSE lo
      borrow == IF And16(lo2, 16) = 16 THEN 1 ELSE 0
      hi == ((a \div 16) - (v \div 16) - borrow + U16) % U16
      hi2 == IF And16(hi, 16) = 16 THEN hi - 6 ELSE hi
      diff == (a - v - n_carry_bit + U16) % U16
      carry == And16(diff, 3840) # 0
      o == And16(BitXorN(diff, v, 16), 128) = 128 /\ And8(Xor8(a, v), 128) = 128
      res == ((hi2 * 16) % U16) + And16(lo2, 15) - And16((hi2 * 16) % U16, And16(lo2, 15))
  IN Upd(c, [c EXCEPT !.status = SetFlag(SetFlag(@, CARRY, carry), OVERFLOW, o),
                      !.register_a = res % U8])

DecimalOn(c) == c.enable_decimal /\ Contains(c.status, DECIMAL_MODE)

\* the flags ADC and SBC end with
flags_of_a(c) == update_zero_and_negative_flags(c, c.register_a)

add_operand(m) ==
  flags_of_a(IF DecimalOn(m.st) THEN bcd_add(m.st, m.v) ELSE binary_add(m.st, m.v))

\* CPU::adc
adc(c, mode) == add_operand(operand(c, mode))

sub_operand(m) ==
  flags_of_a(IF DecimalOn(m.st) THEN bcd_sub(m.st, m.v)
             ELSE binary_add(m.st, Not8(m.v)))

\* CPU::sbc
sbc(c, mode) == sub_operand(operand(c, mode))

and_operand(m) == SetA(m.st, And8(m.st.register_a, m.v))

\* CPU::and
and(c, mode) == and_operand(operand(c, mode))

ora_operand(m) == SetA(m.st, Or8(m.st.register_a, m.v))

\* CPU::ora
ora(c, mode) == ora_operand(operand(c, mode))

eor_operand(m) == SetA(m.st, Xor8(m.st.register_a, m.v))

\* CPU::eor
eor(c, mode) == eor_operand(operand(c, mode))

Shl(v) == (v * 2) % U8

Shr(v) == v \div 2

Bit7(v) == And8(v, 128) = 128

Bit0(v) == And8(v, 1) = 1

\* Z and N from a byte just read, then `self.status.set(CARRY, carry)`
flags_of_read(back, carry) ==
  SetStatus(update_zero_and_negative_flags(back.st, back.v), CARRY, carry)

\* the memory forms of ASL and LSR: write, read the byte back for Z and N
shift_operand(m, value, carry) ==
  flags_of_read(mem_read(mem_write(m.st, m.addr, value), m.addr), carry)

asl_operand(m) == shift_operand(m, Shl(m.v), Bit7(m.v))

\* CPU::asl
asl(c, mode) ==
  IF mode = "None"
  THEN SetStatus(SetA(c, Shl(c.register_a)), CARRY, Bit7(c.register_a))
  ELSE asl_operand(operand(c, mode))

lsr_operand(m) == shift_operand(m, Shr(m.v), Bit0(m.v))

\* CPU::lsr
lsr(c, mode) ==
  IF mode = "None"
  THEN SetStatus(SetA(c, Shr(c.register_a)), CARRY, Bit0(c.register_a))
  ELSE lsr_operand(operand(c, mode))

\* the memory forms of ROL and ROR: Z and N come from the value written
rotate_operand(m, value, carry) ==
  SetStatus(update_zero_and_negative_flags(mem_write(m.st, m.addr, value), value),
            CARRY, carry)

\* `value <<= 1; if old_carry { value |= 1 }`
RotL(v, status) == Or8(Shl(v), IF Contains(status, CARRY) THEN 1 ELSE 0)

\* `value >>= 1; if old_carry { value |= 0b1000_0000 }`
RotR(v, status) == Or8(Shr(v), IF Contains(status, CARRY) THEN 128 ELSE 0)

rol_operand(m, status) == rotate_operand(m, RotL(m.v, status), Bit7(m.v))

\* CPU::rol
rol(c, mode) ==
  IF mode = "None"
  THEN SetStatus(SetA(c, RotL(c.register_a, c.status)), CARRY, Bit7(c.register_a))
  ELSE rol_operand(operand(c, mode), c.status)

ror_operand(m, status) == rotate_operand(m, RotR(m.v, status), Bit0(m.v))

\* CPU::ror
ror(c, mode) ==
  IF mode = "None"
  THEN SetStatus(SetA(c, RotR(c.register_a, c.status)), CARRY, Bit0(c.register_a))
  ELSE ror_operand(operand(c, mode), c.status)

\* `self.program_counter = pc.wrapping_add(1).wrapping_add(jump as u16)`
jump_by(jump, program_counter) ==
  Upd(jump.st,
      [jump.st EXCEPT !.program_counter =
         WrapAdd16(WrapAdd16(program_counter, 1), SignExtend(jump.v))])

\* CPU::branch
branch(c, condition) ==
  IF condition THEN jump_by(mem_read(c, c.program_counter), c.program_counter) ELSE c

bit_operand(m) ==
  SetStatus(SetStatus(SetStatus(m.st, ZERO, And8(m.v, m.st.register_a) = 0),
                      OVERFLOW, And8(m.v, 64) = 64),
            NEGATIVE, And8(m.v, 128) = 128)

\* CPU::bit
bit(c, mode) == bit_operand(operand(c, mode))

compare_operand(m, register) ==
  SetStatus(SetStatus(SetStatus(m.st, CARRY, register >= m.v),
                      ZERO, m.v = register),
            NEGATIVE, And8(WrapSub8(register, m.v), 128) = 128)

\* CPU::compare
compare(c, register, mode) == compare_operand(operand(c, mode), register)

cmp(c, mode) == compare(c, c.register_a, mode)

cpx(c, mode) == compare(c, c.register_x, mode)

cpy(c, mode) == compare(c, c.register_y, mode)

\* the store and the flags that DEC and INC end with
store_with_flags(m, value) ==
  update_zero_and_negative_flags(mem_write(m.st, m.addr, value), value)

dec_operand(m) == store_with_flags(m, WrapSub8(m.v, 1))

\* CPU::dec
dec(c, mode) == dec_operand(operand(c, mode))

inc_operand(m) == store_with_flags(m, WrapAdd8(m.v, 1))

\* CPU::inc
inc(c, mode) == inc_operand(operand(c, mode))

dex(c) == SetX(c, WrapSub8(c.register_x, 1))

dey(c) == SetY(c, WrapSub8(c.register_y, 1))

inx(c) == SetX(c, WrapAdd8(c.register_x, 1))

iny(c) == SetY(c, WrapAdd8(c.register_y, 1))

lda_operand(m) == SetA(m.st, m.v)

\* CPU::lda
lda(c, mode) == lda_operand(operand(c, mode))

ldx_operand(m) == SetX(m.st, m.v)

\* CPU::ldx
ldx(c, mode) == ldx_operand(operand(c, mode))

ldy_operand(m) == SetY(m.st, m.v)

\* CPU::ldy
ldy(c, mode) == ldy_operand(operand(c, mode))

\* `self.mem_write(addr, value)`, addr being the result of get_operand_address
write_to(addr, value) == mem_write(addr.st, addr.v, value)

\* CPU::sta / stx / sty and the undocumented stores: write a byte to the operand address
store(c, mode, value) == write_to(get_operand_address(c, mode), value)

sta(c, mode) == store(c, mode, c.register_a)

stx(c, mode) == store(c, mode, c.register_x)

sty(c, mode) == store(c, mode, c.register_y)

tax(c) == SetX(c, c.register_a)

\* CPU::tay: Z and N are taken from register_a, which equals the new Y
tay(c) == update_zero_and_negative_flags(
            Upd(c, [c EXCEPT !.register_y = c.register_a]), c.register_a)

tsx(c) == SetX(c, c.stack_pointer)

txa(c) == SetA(c, c.register_x)

txs(c) == Upd(c, [c EXCEPT !.stack_pointer = c.register_x])

tya(c) == SetA(c, c.register_y)

\* `self.program_counter = self.mem_read_u16(self.program_counter)`
jump_to_operand(c) == set_program_counter(mem_read_u16(c, c.program_counter))

\* `self.stack_push_u16(<sum> - 1)`, the sum being `program_counter + 2`
push_return(plus) == stack_push_u16(Sub16(plus.st, plus.v, 1).st,
                                    Sub16(plus.st, plus.v, 1).v)

\* CPU::jsr: `program_counter + 2 - 1` is pushed, then the operand is loaded
jsr(c) == jump_to_operand(push_return(Add16(c, c.program_counter, 2)))

\* `self.program_counter = <word popped> + 1`
return_to(r) == set_program_counter(Add16(r.st, r.v, 1))

\* CPU::rts
rts(c) == return_to(stack_pop_u16(c))

\* an RTI that returns as RTS does, one past the address pulled
rti_one_past(c) == return_to(stack_pop_u16(load_status(stack_pop(c))))

\* CPU::rti
rti(c) == set_program_counter(stack_pop_u16(load_status(stack_pop(c))))

(***************************************************************************)
(* Undocumented instructions (arms of the dispatcher)                      *)
(***************************************************************************)
\* `self.update_zero_and_negative_flags(result); self.register_x = result`
set_x_after_flags(c, result) ==
  Upd(update_zero_and_negative_flags(c, result),
      [update_zero_and_negative_flags(c, result) EXCEPT !.register_x = result])

axs_operand(m, bitwise_and) ==
  set_x_after_flags(IF m.v <= bitwise_and THEN SetStatus(m.st, CARRY, TRUE) ELSE m.st,
                    WrapSub8(bitwise_and, m.v))

axs_with(m) == axs_operand(m, And8(m.st.register_a, m.st.register_x))

\* AXS (0xCB): CARRY is only ever inserted
axs(c, mode) == axs_with(operand(c, mode))

\* `reg & (addr >> 8) as u8 + 1`: the sum binds tighter than the AND
write_and_of_sum(addr, reg, sum) == mem_write(sum.st, addr.v, And8(reg, sum.v))

high_plus_one_at(addr, reg) ==
  write_and_of_sum(addr, reg, Add8(addr.st, HiByte(addr.v), 1))

\* SXA (0x9E) and SYA (0x9C)
high_plus_one(c, mode, reg) == high_plus_one_at(get_operand_address(c, mode), reg)

axa_at(addr, register_a, register_x) ==
  mem_write(addr.st, addr.v, And8(And8(register_a, register_x), HiByte(addr.v)))

\* AXA (0x9F, 0x93)
axa(c, mode) == axa_at(get_operand_address(c, mode), c.register_a, c.register_x)

\* `self.stack_pointer = self.register_a & self.register_x`, addr being resolved
xas_at(addr, sp) ==
  write_and_of_sum(addr, sp,
                   Add8(Upd(addr.st, [addr.st EXCEPT !.stack_pointer = sp]),
                        HiByte(addr.v), 1))

\* XAS (0x9B)
xas(c, mode) == xas_at(get_operand_address(c, mode), And8(c.register_a, c.register_x))

lar_load(c, data) ==
  update_zero_and_negative_flags(
    Upd(c, [c EXCEPT !.register_a = data, !.register_x = data,
                     !.stack_pointer = data]), data)

lar_operand(m) == lar_load(m.st, And8(m.v, m.st.stack_pointer))

\* LAR (0xBB)
lar(c, mode) == lar_operand(operand(c, mode))

xaa_operand(m) == Upd(m.st, [m.st EXCEPT !.register_a = And8(@, m.v)])

\* XAA (0x8B)
xaa(c, mode) == xaa_operand(operand(Upd(c, [c EXCEPT !.register_a = c.register_x]), mode))

arr_flags(c) ==
  SetStatus(SetStatus(c, OVERFLOW,
                      (And8(c.register_a, 32) = 32) # (And8(c.register_a, 64) = 64)),
            CARRY, And8(c.register_a, 64) = 64)

\* ARR (0x6B)
arr(c, mode) == arr_flags(ror(and(c, mode), "None"))

anc_flags(c) == SetStatus(c, CARRY, Contains(c.status, NEGATIVE))

\* ANC (0x0B, 0x2B)
anc(c, mode) == anc_flags(and(c, mode))

a_to_x(c) == Upd(c, [c EXCEPT !.register_x = c.register_a])

\* ATX (0xAB)
atx(c, mode) == a_to_x(and(c, mode))

(***************************************************************************)
(* The dispatcher: the `match code` of CPU::run_with_callback, BRK aside   *)
(***************************************************************************)
\* the page-boundary arm of JMP indirect: low byte at $xxFF, high byte at $xx00
read_wrapped_word(mem_addr) ==
  then_read(mem_read(mem_addr.st, mem_addr.v), And16(mem_addr.v, 65280))

indirect_ref(mem_addr) ==
  IF And16(mem_addr.v, 255) = 255 THEN read_wrapped_word(mem_addr)
  ELSE deref_u16(mem_addr)

\* JMP indirect (0x6C)
jmp_indirect(c) ==
  set_program_counter(indirect_ref(mem_read_u16(c, c.program_counter)))

\* JMP absolute (0x4C)
jmp_absolute(c) == jump_to_operand(c)

\* the arms of `match code`, mode being opcode.mode
dispatch(c, code, mode) ==
  CASE code \in {105, 101, 117, 109, 125, 121, 97, 113} -> adc(c, mode)
    [] code \in {41, 37, 53, 45, 61, 57, 33, 49} -> and(c, mode)
    [] code \in {10, 6, 22, 14, 30} -> asl(c, mode)
    [] code = 144 -> branch(c, ~Contains(c.status, CARRY))
    [] code = 176 -> branch(c, Contains(c.status, CARRY))
    [] code = 240 -> branch(c, Contains(c.status, ZERO))
    [] code = 48 -> branch(c, Contains(c.status, NEGATIVE))
    [] code = 208 -> branch(c, ~Contains(c.status, ZERO))
    [] code = 16 -> branch(c, ~Contains(c.status, NEGATIVE))
    [] code = 80 -> branch(c, ~Contains(c.status, OVERFLOW))
    [] code = 112 -> branch(c, Contains(c.status, OVERFLOW))
    [] code \in {36, 44} -> bit(c, mode)
    [] code = 24 -> SetStatus(c, CARRY, FALSE)
    [] code = 216 -> SetStatus(c, DECIMAL_MODE, FALSE)
    [] code = 88 -> SetStatus(c, INTERRUPT_DISABLE, FALSE)
    [] code = 184 -> SetStatus(c, OVERFLOW, FALSE)
    [] code \in {201, 197, 213, 205, 221, 217, 193, 209} -> cmp(c, mode)
    [] code \in {224, 228, 236} -> cpx(c, mode)
    [] code \in {192, 196, 204} -> cpy(c, mode)
    [] code \in {198, 214, 206, 222} -> dec(c, mode)
    [] code = 202 -> dex(c)
    [] code = 136 -> dey(c)
    [] code \in {73, 69, 85, 77, 93, 89, 65, 81} -> eor(c, mode)
    [] code = 108 -> jmp_indirect(c)
    [] code = 76 -> jmp_absolute(c)
    [] code = 32 -> jsr(c)
    [] code = 96 -> rts(c)
    [] code = 64 -> rti(c)
    [] code \in {230, 246, 238, 254} -> inc(c, mode)
    [] code = 232 -> inx(c)
    [] code = 200 -> iny(c)
    [] code \in {169, 165, 181, 173, 189, 185, 161, 177} -> lda(c, mode)
    [] code \in {162, 166, 182, 174, 190} -> ldx(c, mode)
    [] code \in {160, 164, 180, 172, 188} -> ldy(c, mode)
    [] code \in {74, 70, 86, 78, 94} -> lsr(c, mode)
    [] code = 234 -> c
    [] code \in {9, 5, 21, 13, 29, 25, 1, 17} -> ora(c, mode)
    [] code = 72 -> stack_push(c, c.register_a)
    [] code = 8 -> php(c)
    [] code = 104 -> pla(c)
    [] code = 40 -> plp(c)
    [] code \in {42, 38, 54, 46, 62} -> rol(c, mode)
    [] code \in {106, 102, 118, 110, 126} -> ror(c, mode)
    [] code \in {233, 229, 245, 237, 253, 249, 225, 241} -> sbc(c, mode)
    [] code \in {133, 149, 141, 157, 153, 129, 145} -> sta(c, mode)
    [] code \in {132, 148, 140} -> sty(c, mode)
    [] code \in {134, 150, 142} -> stx(c, mode)
    [] code = 56 -> SetStatus(c, CARRY, TRUE)
    [] code = 248 -> SetStatus(c, DECIMAL_MODE, TRUE)
    [] code = 120 -> SetStatus(c, INTERRUPT_DISABLE, TRUE)
    [] code = 170 -> tax(c)
    [] code = 168 -> tay(c)
    [] code = 186 -> tsx(c)
    [] code = 138 -> txa(c)
    [] code = 154 -> txs(c)
    [] code = 152 -> tya(c)
    [] code \in {26, 58, 90, 122, 218, 250} -> c
    [] code \in {128, 130, 137, 194, 226} -> c
    [] code \in {12, 28, 60, 92, 124, 220, 252, 4, 68, 100,
                 20, 52, 84, 116, 212, 244} -> c
    [] code \in {163, 167, 175, 179, 183, 191} -> tax(lda(c, mode))
    [] code \in {131, 135, 143, 151} ->
         store(c, mode, And8(c.register_a, c.register_x))
    [] code = 235 -> sbc(c, mode)
    [] code \in {195, 199, 207, 211, 215, 219, 223} -> cmp(dec(c, mode), mode)
    [] code \in {227, 231, 239, 243, 247, 251, 255} -> sbc(inc(c, mode), mode)
    [] code \in {3, 7, 15, 19, 23, 27, 31} -> ora(asl(c, mode), mode)
    [] code \in {35, 39, 47, 51, 55, 59, 63} -> and(rol(c, mode), mode)
    [] code \in {67, 71, 79, 83, 87, 91, 95} -> eor(lsr(c, mode), mode)
    [] code \in {99, 103, 111, 115, 119, 123, 127} -> adc(ror(c, mode), mode)
    [] code = 75 -> lsr(and(c, mode), "None")
    [] code \in {11, 43} -> anc(c, mode)
    [] code = 107 -> arr(c, mode)
    [] code = 203 -> axs(c, mode)
    [] code = 171 -> atx(c, mode)
    [] code \in {159, 147} -> axa(c, mode)
    [] code = 158 -> high_plus_one(c, mode, c.register_x)
    [] code = 156 -> high_plus_one(c, mode, c.register_y)
    [] code = 155 -> xas(c, mode)
    [] code \in {2, 18, 34, 50, 66, 82, 98, 114, 146, 178, 210, 242} ->
         Panic(c, "Illegal HLT instruction received.")
    [] code = 187 -> lar(c, mode)
    [] code = 139 -> xaa(c, mode)

execute(c, code) == dispatch(c, code, OpMode(code))

(***************************************************************************)
(* One iteration of the loop of CPU::run_with_callback, the callback being *)
(* the empty one of CPU::run.  `returned` tells the BRK arm's `return`.    *)
(***************************************************************************)
\* `self.program_counter += 1`, code being the byte just read
count_fetch(code) ==
  Res(set_program_counter(Add16(code.st, code.st.program_counter, 1)), code.v, "none")

\* `let code = self.mem_read(self.program_counter); self.program_counter += 1;`
fetch(c) == count_fetch(mem_read(c, c.program_counter))

\* `opcodes.get(&code).expect(..)`
lookup(c, code) ==
  IF InTable(code) THEN c ELSE Panic(c, "OpCode is not recognized")

\* `if program_counter_state == self.program_counter { program_counter += len - 1 }`
advance(c, program_counter_state, code) ==
  IF Ok(c) /\ program_counter_state = c.program_counter
  THEN set_program_counter(Add16(c, c.program_counter, OpLen(code) - 1))
  ELSE c

Outcome(st, code, returned) == [st |-> st, code |-> code, returned |-> returned]

\* the body of the loop after the lookup: `0x00 => return`, or an arm and the advance
run_opcode(c, code, program_counter_state) ==
  IF ~Ok(c) THEN Outcome(c, code, FALSE)
  ELSE IF code = 0 THEN Outcome(c, 0, TRUE)
  ELSE Outcome(advance(execute(c, code), program_counter_state, code), code, FALSE)

run_fetched(f) == run_opcode(lookup(f.st, f.v), f.v, f.st.program_counter)

run_iteration(c) ==
  IF c.pause THEN Outcome(c, -1, FALSE) ELSE run_fetched(fetch(c))

(***************************************************************************)
(* Bounds of the model                                                     *)
(***************************************************************************)
MaxResets == 2

MaxRegisterPokes == 1

MaxWrites == 1

MaxToggles == 1

MaxTicks == 330

MaxAccesses == 5

MaxTraces == 2

MaxPpuTicks == 4

(***************************************************************************)
(* The host: construction, and the calls a host (or a test) makes          *)
(***************************************************************************)
\* a zero-filled cartridge of the given PRG size
BlankRom(prg_len, mirroring) ==
  [ prg_rom |-> [len |-> prg_len, bytes |-> NoBytes],
    chr_rom |-> [len |-> 8192, bytes |-> NoBytes],
    screen_mirroring |-> mirroring ]

\* the tests' new_cpu(): a bus that allows ROM writes, and the CPU around it
new_cpu(rom, overflow_checks) ==
  CPU_new([Bus_new(rom) EXCEPT !.allow_rom_writes = TRUE], overflow_checks)

\* the host assigns the public register fields
set_registers(c, r) ==
  [c EXCEPT !.register_a = r.a, !.register_x = r.x, !.register_y = r.y,
            !.stack_pointer = r.s, !.status = r.p]

\* load, reset, then the registers: the state a test is in before cpu.run()
ready_cpu(rom, overflow_checks, p, r) ==
  set_registers(reset(load_at(new_cpu(rom, overflow_checks), p.program, p.addr)), r)

Did(name, code) == [name |-> name, code |-> code]

After(c) == IF Ok(c) THEN "ready" ELSE "panicked"

NoneUsed ==
  [resets |-> 0, regs |-> 0, writes |-> 0, toggles |-> 0, ticks |-> 0,
   accesses |-> 0, traces |-> 0]

\* the history kept for the properties: the last two actions and the CPU before each
Record(name, code) ==
  /\ prev' = cpu
  /\ act' = Did(name, code)
  /\ prev2' = prev
  /\ act2' = act

NoHistory ==
  /\ prev = cpu
  /\ act = Did("new", -1)
  /\ prev2 = cpu
  /\ act2 = Did("new", -1)

\* a CPU just constructed around a cartridge
InitWith(Roms) ==
  /\ \E rom \in Roms, overflow_checks \in BOOLEAN :
       cpu = CPU_new(Bus_new(rom), overflow_checks)
  /\ phase = "new"
  /\ NoHistory
  /\ used = NoneUsed

\* a CPU loaded, reset and given its registers, about to run
InitReady(Roms, Programs, Registers) ==
  /\ \E rom \in Roms, overflow_checks \in BOOLEAN, p \in Programs, r \in Registers :
       cpu = ready_cpu(rom, overflow_checks, p, r)
  /\ phase = "ready"
  /\ NoHistory
  /\ used = NoneUsed

\* bus.allow_rom_writes = true, as the tests' new_cpu() does
AllowRomWrites ==
  /\ phase = "new"
  /\ ~cpu.bus.allow_rom_writes
  /\ cpu' = [cpu EXCEPT !.bus.allow_rom_writes = TRUE]
  /\ Record("AllowRomWrites", -1)
  /\ UNCHANGED <<phase, used>>

\* cpu.load_at(program, addr)
Load(program, addr) ==
  /\ phase = "new"
  /\ cpu' = load_at(cpu, program, addr)
  /\ phase' = IF Ok(cpu') THEN "loaded" ELSE "panicked"
  /\ Record("Load", -1)
  /\ UNCHANGED used

\* cpu.reset()
Reset ==
  /\ phase \in {"new", "loaded", "ready", "returned"}
  /\ used.resets < MaxResets
  /\ cpu' = reset(cpu)
  /\ phase' = After(cpu')
  /\ Record("Reset", -1)
  /\ used' = [used EXCEPT !.resets = @ + 1]

\* cpu.register_a = ..; cpu.stack_pointer = ..; cpu.status = ..
SetRegisters(r) ==
  /\ phase \in {"new", "loaded", "ready"}
  /\ used.regs < MaxRegisterPokes
  /\ cpu' = set_registers(cpu, r)
  /\ Record("SetRegisters", -1)
  /\ used' = [used EXCEPT !.regs = @ + 1]
  /\ UNCHANGED phase

\* cpu.mem_write(addr, data) from the host
HostWrite(addr, data) ==
  /\ phase \in {"loaded", "ready"}
  /\ used.writes < MaxWrites
  /\ cpu' = mem_write(cpu, addr, data)
  /\ phase' = IF Ok(cpu') THEN phase ELSE "panicked"
  /\ Record("HostWrite", -1)
  /\ used' = [used EXCEPT !.writes = @ + 1]

\* cpu.bus.tick(cycles) from the host
HostTick(cycles) ==
  /\ phase \in {"ready", "running"}
  /\ used.ticks < MaxTicks
  /\ cpu' = InCpu(cpu, Bus_tick(cpu.bus, cycles, cpu.overflow_checks)).st
  /\ phase' = IF Ok(cpu') THEN phase ELSE "panicked"
  /\ Record("HostTick", -1)
  /\ used' = [used EXCEPT !.ticks = @ + 1]

\* cpu.mem_write(addr, data) from the host, to a PPU register; the history
\* keeps the register's name and the byte written
RegisterWrite(name, addr, data) ==
  /\ phase = "ready"
  /\ used.accesses < MaxAccesses
  /\ cpu' = mem_write(cpu, addr, data)
  /\ phase' = After(cpu')
  /\ Record(name, data)
  /\ used' = [used EXCEPT !.accesses = @ + 1]

\* cpu.mem_read(addr) from the host, of a PPU register; the history keeps the
\* register's name and the byte read
RegisterRead(name, addr) ==
  /\ phase = "ready"
  /\ used.accesses < MaxAccesses
  /\ cpu' = mem_read(cpu, addr).st
  /\ phase' = After(cpu')
  /\ Record(name, mem_read(cpu, addr).v)
  /\ used' = [used EXCEPT !.accesses = @ + 1]

\* cpu.toggle_pause()
TogglePause ==
  /\ phase = "ready"
  /\ used.toggles < MaxToggles
  /\ cpu' = toggle_pause(cpu)
  /\ Record("TogglePause", -1)
  /\ used' = [used EXCEPT !.toggles = @ + 1]
  /\ UNCHANGED phase

\* cpu.run(): the loop is entered
Run ==
  /\ phase = "ready"
  /\ phase' = "running"
  /\ Record("Run", -1)
  /\ UNCHANGED <<cpu, used>>

\* one iteration of the loop
Step ==
  LET Take(r) ==
        /\ cpu' = r.st
        /\ phase' = IF r.returned THEN "returned"
                    ELSE IF Ok(r.st) THEN "running" ELSE "panicked"
        /\ Record("Step", r.code)
  IN /\ phase = "running"
     /\ Take(run_iteration(cpu))
     /\ UNCHANGED used

HostNext(Programs, Registers, Writes) ==
  \/ AllowRomWrites
  \/ \E p \in Programs : Load(p.program, p.addr)
  \/ Reset
  \/ \E r \in Registers : SetRegisters(r)
  \/ \E w \in Writes : HostWrite(w.addr, w.data)
  \/ TogglePause
  \/ Run
  \/ Step

(***************************************************************************)
(* Inputs                                                                  *)
(***************************************************************************)
Regs(a, x, y, s, p) == [a |-> a, x |-> x, y |-> y, s |-> s, p |-> p]

At(addr, program) == [addr |-> addr, program |-> program]

Poke(addr, data) == [addr |-> addr, data |-> data]

Roms == {BlankRom(32768, "Horizontal"), BlankRom(16384, "Vertical")}

\* the five-op chain, a multi-byte NOP, a store into ROM, a program that runs
\* off the top of memory, an unknown opcode, a HLT, a jump to the last byte
Programs ==
  { At(32768, <<169, 192, 170, 232, 0>>),
    At(32768, <<4, 16, 234>>),
    At(1536, <<141, 0, 128, 0>>),
    At(33023, <<160, 15, 200>>),
    At(32768, <<139, 1>>),
    At(32768, <<18>>),
    At(32768, <<76, 255, 255>>) }

Registers ==
  { Regs(255, 255, 255, 0, 255), Regs(4, 0, 1, 127, 0), Regs(0, 10, 15, 253, 90) }

Writes == { Poke(16, 85), Poke(65532, 52), Poke(65533, 18), Poke(32770, 0) }

Init == InitWith(Roms)

Next == HostNext(Programs, Registers, Writes)

Spec == Init /\ [][Next]_vars

(***************************************************************************)
(* Further specifications: a CPU that is loaded, reset and given its       *)
(* registers, and then run                                                 *)
(***************************************************************************)
NextRun == Run \/ Step

OneRom == {BlankRom(32768, "Horizontal")}

\* PHA PLA / PHP PLP / JSR $8004, BRK, RTS / PHA PHA PHP RTI
StackPrograms ==
  { At(32768, <<72, 104>>),
    At(32768, <<8, 40>>),
    At(32768, <<32, 4, 128, 0, 96>>),
    At(32768, <<72, 72, 8, 64>>) }

\* every stack pointer
StackRegisters == { Regs(90, 1, 2, s, p) : s \in 0 .. 255, p \in {36, 223, 255} }

\* PHP PLP, under every value of the status register
FlagPrograms == { At(32768, <<8, 40>>) }

FlagRegisters == { Regs(90, 1, 2, s, p) : s \in {0, 1, 127, 253, 255}, p \in 0 .. 255 }

InitStack ==
  \/ InitReady(OneRom, StackPrograms, StackRegisters)
  \/ InitReady(OneRom, FlagPrograms, FlagRegisters)

SpecStack == InitStack /\ [][NextRun]_vars

\* BPL BMI BVC BVS BCC BCS BNE BEQ
BranchCodes == {16, 48, 80, 112, 144, 176, 208, 240}

\* every branch with every offset byte, in ROM and at the top of the zero page
BranchPrograms ==
  { At(a, <<b, o>>) : a \in {32768, 254}, b \in BranchCodes, o \in 0 .. 255 }

\* N, V, Z, C all clear, and all set
BranchRegisters == { Regs(0, 0, 0, 253, p) : p \in {36, 231} }

JumpTargets == (32766 .. 32776) \cup {0, 255, 256, 1536, 32874, 65535}

\* JMP t / JSR t with an RTS at $8003 and at $8004 / JMP $0601 in RAM
JumpPrograms ==
  { At(32768, <<76, LoByte(t), HiByte(t)>>) : t \in JumpTargets }
    \cup { At(32768, <<32, LoByte(t), HiByte(t), 96, 96>>) : t \in 32768 .. 32772 }
    \cup { At(1536, <<76, 1, 6>>), At(1536, <<32, 1, 6, 96>>) }

JumpRegisters == { Regs(0, 0, 0, s, 36) : s \in {253, 1, 0} }

InitFlow ==
  \/ InitReady(OneRom, BranchPrograms, BranchRegisters)
  \/ InitReady(OneRom, JumpPrograms, JumpRegisters)

SpecFlow == InitFlow /\ [][NextRun]_vars

\* INX INX BRK, while the host enables the vblank NMI and ticks the bus
NmiPrograms == { At(32768, <<232, 232, 0>>) }

NmiRegisters == { Regs(0, 0, 0, 253, 36) }

NmiWrites == { Poke(8192, 128) }

NmiTicks == {85}

InitNmi == InitReady(OneRom, NmiPrograms, NmiRegisters)

NextNmi ==
  \/ \E w \in NmiWrites : HostWrite(w.addr, w.data)
  \/ \E t \in NmiTicks : HostTick(t)
  \/ Run
  \/ Step

SpecNmi == InitNmi /\ [][NextNmi]_vars

(***************************************************************************)
(* Vocabulary of the properties                                            *)
(***************************************************************************)
\* the last action was an iteration of the loop that fetched `code` and
\* carried its instruction out
Stepped(code) == act.name = "Step" /\ act.code = code /\ Ok(cpu)

\* the byte stored at an address, as the bus showed it before the last action
StoredAt(addr) == Bus_mem_read(prev.bus, addr).v

\* the little-endian word stored at an address and the one after it
WordAt(addr) == FromLeBytes(StoredAt(addr), StoredAt((addr + 1) % U16))

\* a byte of RAM after the last action, and before it
RamNow(addr) == Get(cpu.bus.cpu_vram, addr)

RamBefore(addr) == Get(prev.bus.cpu_vram, addr)

\* the stack address that a stack pointer `down` below `s` names
StackAt(s, down) == 256 + ((s + 256 - down) % 256)

\* the RAM addresses whose byte the last action changed
RamChanged ==
  { a \in DOMAIN cpu.bus.cpu_vram \cup DOMAIN prev.bus.cpu_vram :
      RamNow(a) # RamBefore(a) }

\* everything but the program counter is as it was before the last action
OnlyPcMoved == [cpu EXCEPT !.program_counter = 0] = [prev EXCEPT !.program_counter = 0]

(***************************************************************************)
(* Properties                                                              *)
(***************************************************************************)
\* C1: after CPU::reset(), whatever the registers were, A = X = Y = 0,
\* S = 0xFD, P = 0x24 (I and U set, every other flag clear) and PC is the
\* little-endian word stored at 0xFFFC/0xFFFD.
ResetState ==
  act.name = "Reset" =>
    /\ Ok(cpu)
    /\ cpu.register_a = 0
    /\ cpu.register_x = 0
    /\ cpu.register_y = 0
    /\ cpu.stack_pointer = 253
    /\ cpu.status = INTERRUPT_DISABLE + BREAK2
    /\ cpu.program_counter = WordAt(65532)
    /\ cpu.bus = prev.bus

\* a reset of a CPU whose registers, flags and program counter all differed
\* from their reset values, with a vector that is not zero
ResetStateWitness ==
  /\ act.name = "Reset"
  /\ prev.register_a = 255
  /\ prev.register_x = 255
  /\ prev.register_y = 255
  /\ prev.stack_pointer = 0
  /\ prev.status = 255
  /\ prev.program_counter # cpu.program_counter
  /\ cpu.program_counter = 32768
  /\ cpu.register_x = 0

\* the dots the PPU has counted in the frame
Dots(p) == p.scanline * DOTS_PER_SCANLINE + p.cycles

\* C2: for every instruction the loop executes, with cycle cost c, the bus
\* cycle counter grows by exactly c and the PPU is ticked by 3*c, before the
\* next instruction is fetched.
CyclesCounted ==
  (act.name = "Step" /\ act.code > 0 /\ Ok(cpu)) =>
    /\ cpu.bus.cycles = prev.bus.cycles + OpCycles(act.code)
    /\ Dots(cpu.bus.ppu) =
         (Dots(prev.bus.ppu) + 3 * OpCycles(act.code))
           % (SCANLINES_PER_FRAME * DOTS_PER_SCANLINE)

\* C3: when the PPU's NMI flag is set at an instruction boundary, the CPU,
\* before it fetches the next opcode, pushes PC (high byte, then low byte) and
\* P with B clear and U set, sets I, loads PC from the vector at 0xFFFA and
\* clears the flag.  (The vector of a blank cartridge is 0x0000, where RAM
\* holds a BRK: whatever follows the service leaves the stack as it was.)
NmiServiced ==
  (act.name = "Step" /\ Ok(prev) /\ ~prev.pause /\ prev.bus.ppu.nmi_interrupt) =>
    /\ ~cpu.bus.ppu.nmi_interrupt
    /\ RamNow(StackAt(prev.stack_pointer, 0)) = HiByte(prev.program_counter)
    /\ RamNow(StackAt(prev.stack_pointer, 1)) = LoByte(prev.program_counter)
    /\ RamNow(StackAt(prev.stack_pointer, 2)) =
         Insert(Remove(prev.status, BREAK), BREAK2)
    /\ Contains(cpu.status, INTERRUPT_DISABLE)

\* C4: executing BRK (opcode 0x00) pushes PC+1 (high, then low) and then P with
\* B and U set, so that S goes down by 3 mod 256, sets I, and loads PC from
\* the vector at 0xFFFE.  PC is the address after the opcode byte.
BrkInterrupts ==
  Stepped(0) =>
    /\ cpu.stack_pointer = (prev.stack_pointer + 253) % 256
    /\ RamNow(StackAt(prev.stack_pointer, 0)) = HiByte((prev.program_counter + 2) % U16)
    /\ RamNow(StackAt(prev.stack_pointer, 1)) = LoByte((prev.program_counter + 2) % U16)
    /\ RamNow(StackAt(prev.stack_pointer, 2)) = Insert(Insert(prev.status, BREAK), BREAK2)
    /\ Contains(cpu.status, INTERRUPT_DISABLE)
    /\ cpu.program_counter = WordAt(65534)

\* the registers and the memories of a CPU
Registers5(c) ==
  <<c.register_a, c.register_x, c.register_y, c.stack_pointer, c.status>>

Memory(c) ==
  <<c.bus.cpu_vram, c.bus.prg_rom, c.bus.ppu.vram, c.bus.ppu.oam_data,
    c.bus.ppu.palette_table, c.bus.ppu.chr_rom>>

\* the loop fetched an opcode in the last action: it was not paused and the
\* read at PC came back
Fetched == act.name = "Step" /\ Ok(prev) /\ ~prev.pause
             /\ Bus_mem_read(prev.bus, prev.program_counter).panic = "none"

\* C5: run() returns exactly when the opcode fetched at PC is 0x00, and not
\* before; on return PC is the address of that byte plus 1, and A, X, Y, S, P
\* and memory are as the preceding instruction left them.
ReturnsAtBrk ==
  /\ Fetched =>
       /\ (phase = "returned") <=> (StoredAt(prev.program_counter) = 0)
       /\ phase = "returned" =>
            /\ cpu.program_counter = (prev.program_counter + 1) % U16
            /\ Registers5(cpu) = Registers5(prev)
            /\ Memory(cpu) = Memory(prev)
  /\ phase = "returned" => act.name \in {"Step"} /\ Fetched

\* C6: a JSR at address a with absolute target t pushes a+2 (the address of
\* its last byte), high byte first and then low byte, so that S goes down by
\* 2, and sets PC = t; an RTS executed at the matched stack depth then sets
\* PC = a+3 and restores S.
JsrRtsMatch ==
  /\ Stepped(32) =>
       /\ RamNow(StackAt(prev.stack_pointer, 0)) = HiByte(prev.program_counter + 2)
       /\ RamNow(StackAt(prev.stack_pointer, 1)) = LoByte(prev.program_counter + 2)
       /\ cpu.stack_pointer = (prev.stack_pointer + 254) % 256
       /\ cpu.program_counter = WordAt(prev.program_counter + 1)
  /\ (Stepped(96) /\ act2.name = "Step" /\ act2.code = 32) =>
       /\ cpu.program_counter = (prev2.program_counter + 3) % U16
       /\ cpu.stack_pointer = prev2.stack_pointer

\* the bus but for one byte of RAM
BusWith(addr, data) == [prev.bus EXCEPT !.cpu_vram = Put(@, addr, data)]

\* a byte push: the write at 0x0100 + S, then S one down
Pushed(data) ==
  /\ cpu.bus = BusWith(StackAt(prev.stack_pointer, 0), data)
  /\ cpu.stack_pointer = (prev.stack_pointer + 255) % 256

\* `n` byte pulls: S goes up, nothing is written
Pulled(n) ==
  /\ cpu.stack_pointer = (prev.stack_pointer + n) % 256
  /\ cpu.bus = prev.bus

\* the byte the k-th pull of the last action read
PulledByte(k) == RamBefore(256 + ((prev.stack_pointer + k) % 256))

\* PHA PHP PLA PLP JSR RTS RTI
StackCodes == {72, 8, 104, 40, 32, 96, 64}

\* C7: a byte push writes to 0x0100 + S and then sets S to (S - 1) mod 256; a
\* byte pull sets S to (S + 1) mod 256 and then reads 0x0100 + S; so a PHA
\* with S = 0x00 writes 0x0100 and leaves S = 0xFF, a pull with S = 0xFF reads
\* 0x0100 and leaves S = 0x00, and no push or pull touches an address outside
\* 0x0100-0x01FF.
StackDiscipline ==
  /\ Stepped(72) => Pushed(prev.register_a)
  /\ Stepped(8) => Pushed(Or8(prev.status, 48))
  /\ Stepped(104) => Pulled(1) /\ cpu.register_a = PulledByte(1)
  /\ Stepped(40) => Pulled(1) /\ And8(cpu.status, 207) = And8(PulledByte(1), 207)
  /\ Stepped(32) =>
       /\ cpu.bus.cpu_vram =
            Put(Put(prev.bus.cpu_vram, StackAt(prev.stack_pointer, 0),
                    HiByte(prev.program_counter + 2)),
                StackAt(prev.stack_pointer, 1), LoByte(prev.program_counter + 2))
       /\ cpu.stack_pointer = (prev.stack_pointer + 254) % 256
  /\ Stepped(96) =>
       /\ Pulled(2)
       /\ cpu.program_counter = (FromLeBytes(PulledByte(1), PulledByte(2)) + 1) % U16
  /\ Stepped(64) =>
       /\ Pulled(3)
       /\ And8(cpu.status, 207) = And8(PulledByte(1), 207)
       /\ cpu.program_counter = FromLeBytes(PulledByte(2), PulledByte(3))
  /\ (act.name = "Step" /\ act.code \in StackCodes) => RamChanged \subseteq 256 .. 511
  /\ (Stepped(72) /\ prev.stack_pointer = 0) =>
       RamNow(256) = prev.register_a /\ cpu.stack_pointer = 255
  /\ (Stepped(104) /\ prev.stack_pointer = 255) =>
       cpu.register_a = RamBefore(256) /\ cpu.stack_pointer = 0

\* a PHA with S = 0x00 that wrote 0x0100, and the PLA with S = 0xFF after it
\* that read the byte back
StackDisciplineWitness ==
  /\ Stepped(104)
  /\ prev.stack_pointer = 255
  /\ cpu.stack_pointer = 0
  /\ act2.name = "Step"
  /\ act2.code = 72
  /\ prev2.stack_pointer = 0
  /\ RamNow(256) = 90
  /\ cpu.register_a = 90
  /\ Get(prev2.bus.cpu_vram, 256) = 0

\* C8: for every P and S, PHP followed by PLP restores bits 0-3 and 6-7 of P,
\* leaves B (bit 4) clear and bit 5 set, and restores S; the byte PHP wrote
\* is P with bits 4 and 5 set; PHP leaves P itself unchanged.
PhpPlpRoundTrip ==
  /\ Stepped(8) =>
       /\ cpu.status = prev.status
       /\ RamNow(StackAt(prev.stack_pointer, 0)) = Or8(prev.status, BREAK + BREAK2)
  /\ (Stepped(40) /\ act2.name = "Step" /\ act2.code = 8) =>
       /\ And8(cpu.status, 207) = And8(prev2.status, 207)
       /\ ~Contains(cpu.status, BREAK)
       /\ Contains(cpu.status, BREAK2)
       /\ cpu.stack_pointer = prev2.stack_pointer
       /\ prev.status = prev2.status

\* PHP then PLP from S = 0x00 with B set and bit 5 clear in P
PhpPlpRoundTripWitness ==
  /\ Stepped(40)
  /\ act2.name = "Step"
  /\ act2.code = 8
  /\ prev2.stack_pointer = 0
  /\ prev2.status = 223
  /\ cpu.status = 239
  /\ RamNow(256) = 255

\* whether the branch with this opcode is taken under the flags `p`
Taken(code, p) ==
  CASE code = 16 -> ~Contains(p, NEGATIVE)
    [] code = 48 -> Contains(p, NEGATIVE)
    [] code = 80 -> ~Contains(p, OVERFLOW)
    [] code = 112 -> Contains(p, OVERFLOW)
    [] code = 144 -> ~Contains(p, CARRY)
    [] code = 176 -> Contains(p, CARRY)
    [] code = 208 -> ~Contains(p, ZERO)
    [] code = 240 -> Contains(p, ZERO)

\* the operand byte of the instruction at prev.program_counter, as -128..127
Offset == IF StoredAt(prev.program_counter + 1) >= 128
          THEN StoredAt(prev.program_counter + 1) - 256
          ELSE StoredAt(prev.program_counter + 1)

\* C9: for each of the eight branch opcodes at address a and every offset in
\* -128..127 (-1 and -2 included), PC afterwards is (a + 2 + offset) mod 65536
\* when the branch is taken and a + 2 when it is not, and nothing else changes.
BranchTarget ==
  (act.name = "Step" /\ act.code \in BranchCodes /\ Ok(cpu)) =>
    /\ cpu.program_counter =
         IF Taken(act.code, prev.status)
         THEN (prev.program_counter + 2 + Offset + U16) % U16
         ELSE prev.program_counter + 2
    /\ OnlyPcMoved

\* C10: for JMP absolute (0x4C) at any address a and every 16-bit operand t,
\* t = a + 1 included, PC after the instruction is t.
JmpAbsoluteTarget ==
  Stepped(76) => cpu.program_counter = WordAt(prev.program_counter + 1)

(***************************************************************************)
(* Addressing: indirect jumps and the zero-page modes                      *)
(***************************************************************************)
\* JMP ($8004) with the word t stored at $8004, and the same in RAM; a JMP at
\* $80FD through $80FF, whose pointer ends a page: the low byte is at $80FF,
\* $8100 holds 0x12 and $8000 holds 0; NOP, then a JMP through $00FF, where
\* $0000 holds the NOP and $0100 holds 0
IndirectPrograms ==
  { At(32768, <<108, 4, 128, 0, LoByte(t), HiByte(t)>>) : t \in JumpTargets }
    \cup { At(1536, <<108, 4, 6, 0, 1, 6>>), At(1536, <<108, 4, 6, 0, 52, 18>>) }
    \cup { At(33021, <<108, 255, 128, 18>>), At(0, <<234, 108, 255, 0>>) }

InitAddr == InitReady(OneRom, IndirectPrograms, JumpRegisters)

SpecAddr == InitAddr /\ [][NextRun]_vars

\* the pointer operand of the JMP indirect at prev.program_counter
Pointer == WordAt(prev.program_counter + 1)

\* where the claim sends a JMP indirect through the pointer p
IndirectTarget(p) ==
  IF p % 256 = 255 THEN FromLeBytes(StoredAt(p), StoredAt(p - 255)) ELSE WordAt(p)

\* C11: for JMP indirect (0x6C) with a pointer p in readable memory, when the
\* low byte of p is 0xFF the new PC has its low byte from p and its high byte
\* from (p AND 0xFF00), never from p+1; otherwise the new PC is the
\* little-endian word at p and p+1.
JmpIndirectTarget == Stepped(108) => cpu.program_counter = IndirectTarget(Pointer)

\* cpu.mem_write(addr, data) for each of the host's pokes, in order
RECURSIVE write_all(_, _)
write_all(c, pokes) ==
  IF pokes = <<>> THEN c
  ELSE write_all(mem_write(c, Head(pokes).addr, Head(pokes).data), Tail(pokes))

\* a CPU loaded, reset and given its registers, whose host then wrote some
\* memory and set cpu.enable_decimal, about to run
InitPoked(RomSet, ProgramSet, RegisterSet, MemorySet, DecimalSet) ==
  /\ \E rom \in RomSet, overflow_checks \in BOOLEAN, p \in ProgramSet, r \in RegisterSet,
        m \in MemorySet, d \in DecimalSet :
       cpu = [write_all(ready_cpu(rom, overflow_checks, p, r), m)
                EXCEPT !.enable_decimal = d]
  /\ phase = "ready"
  /\ NoHistory
  /\ used = NoneUsed

\* STA/LDA zp,X, STX/LDX zp,Y, STA/LDA (zp,X), STA/LDA (zp),Y
ZeroPageCodes == {149, 181, 150, 182, 129, 161, 145, 177}

ZeroPagePrograms ==
  { At(32768, <<code, zp>>) : code \in ZeroPageCodes, zp \in {0, 1, 127, 128, 254, 255} }

ZeroPageRegisters == { Regs(90, i, i, 253, 36) : i \in {0, 1, 2, 128, 255} }

\* the ends of the zero page and the start of the stack page hold different
\* bytes; every pair of them is an address in RAM
ZeroPageMemories ==
  { << Poke(0, 3), Poke(1, 4), Poke(2, 5), Poke(127, 6), Poke(128, 7), Poke(129, 1),
       Poke(254, 2), Poke(255, 6), Poke(256, 5), Poke(257, 7), Poke(383, 1),
       Poke(774, 17), Poke(1030, 18), Poke(1286, 19) >> }

InitZeroPage ==
  InitPoked(OneRom, ZeroPagePrograms, ZeroPageRegisters, ZeroPageMemories, {FALSE})

SpecZeroPage == InitZeroPage /\ [][NextRun]_vars

\* the operand byte of the instruction at prev.program_counter
OperandByte == StoredAt(prev.program_counter + 1)

\* the word a zero-page pointer names: its bytes are at ptr and (ptr + 1) mod 256
ZeroPageWord(ptr) == FromLeBytes(RamBefore(ptr), RamBefore((ptr + 1) % 256))

\* the index in RAM of an address below 0x2000
RamIndex(addr) == addr % 2048

\* C12: for ZeroPage,X and ZeroPage,Y the effective address is
\* (operand + index) mod 256; for (Indirect,X) the pointer is
\* (operand + X) mod 256 and for (Indirect),Y it is the operand, and the two
\* pointer bytes are read at ptr and (ptr + 1) mod 256, never at 0x0100 or
\* above.  Stores show the effective address, loads the byte read there.
ZeroPageWraps ==
  /\ Stepped(149) =>
       cpu.bus = BusWith((OperandByte + prev.register_x) % 256, prev.register_a)
  /\ Stepped(150) =>
       cpu.bus = BusWith((OperandByte + prev.register_y) % 256, prev.register_x)
  /\ Stepped(181) =>
       cpu.register_a = RamBefore((OperandByte + prev.register_x) % 256)
  /\ Stepped(182) =>
       cpu.register_x = RamBefore((OperandByte + prev.register_y) % 256)
  /\ Stepped(129) =>
       cpu.bus = BusWith(RamIndex(ZeroPageWord((OperandByte + prev.register_x) % 256)),
                         prev.register_a)
  /\ Stepped(161) =>
       cpu.register_a =
         RamBefore(RamIndex(ZeroPageWord((OperandByte + prev.register_x) % 256)))
  /\ Stepped(145) =>
       cpu.bus = BusWith(RamIndex(ZeroPageWord(OperandByte) + prev.register_y),
                         prev.register_a)
  /\ Stepped(177) =>
       cpu.register_a = RamBefore(RamIndex(ZeroPageWord(OperandByte) + prev.register_y))

\* STA ($FE,X) with X = 1: the pointer bytes are $FF and $00, not $0100, and
\* the store lands at the word they hold
ZeroPageWrapsWitness ==
  /\ Stepped(129)
  /\ OperandByte = 254
  /\ prev.register_x = 1
  /\ RamBefore(255) = 6
  /\ RamBefore(0) = 3
  /\ RamBefore(256) = 5
  /\ RamBefore(774) = 17
  /\ RamNow(774) = 90

(***************************************************************************)
(* Arithmetic                                                              *)
(***************************************************************************)
\* operands around every carry and sign boundary
EdgeBytes == {0, 1, 2, 15, 16, 63, 64, 126, 127, 128, 129, 191, 192, 240, 254, 255}

\* ADC #m
AdcPrograms == { At(32768, <<105, m>>) : m \in EdgeBytes }

\* every accumulator, with C and D clear and set
BinaryRegisters == { Regs(a, 0, 0, 253, p) : a \in 0 .. 255, p \in {36, 37, 44, 45} }

\* D clear, under both settings of enable_decimal
PlainRegisters == { Regs(a, 0, 0, 253, p) : a \in EdgeBytes, p \in {36, 37} }

InitBinary ==
  \/ InitPoked(OneRom, AdcPrograms, BinaryRegisters, {<<>>}, {FALSE})
  \/ InitPoked(OneRom, AdcPrograms, PlainRegisters, {<<>>}, {TRUE})

SpecBinary == InitBinary /\ [][NextRun]_vars

\* the carry flag going into the last instruction, as a number
CarryIn == IF Contains(prev.status, CARRY) THEN 1 ELSE 0

\* the last instruction added in binary: decimal mode was disabled, or D was clear
BinaryMode == ~prev.enable_decimal \/ ~Contains(prev.status, DECIMAL_MODE)

BinarySum == prev.register_a + OperandByte + CarryIn

\* Z and N are those of the byte `result`
FlagsOf(result) ==
  /\ Contains(cpu.status, ZERO) <=> (result = 0)
  /\ Contains(cpu.status, NEGATIVE) <=> (result >= 128)

\* C13: in binary mode (decimal disabled whatever the D flag, or D clear), for
\* all A and M and carry-in C, ADC leaves A = (A+M+C) mod 256,
\* C = (A+M+C > 255), V = ((A_old XOR result) AND (M XOR result) AND 0x80) != 0,
\* and Z and N derived from the new A.
BinaryAdc ==
  (Stepped(105) /\ BinaryMode) =>
    /\ cpu.register_a = BinarySum % 256
    /\ Contains(cpu.status, CARRY) <=> (BinarySum > 255)
    /\ Contains(cpu.status, OVERFLOW) <=>
         (And8(And8(Xor8(prev.register_a, cpu.register_a),
                    Xor8(OperandByte, cpu.register_a)), 128) # 0)
    /\ FlagsOf(cpu.register_a)

\* 0xFF + 0x00 + carry with D set and decimal mode disabled: the sum wraps to
\* zero through the carry-in alone
BinaryAdcWitness ==
  /\ Stepped(105)
  /\ ~prev.enable_decimal
  /\ Contains(prev.status, DECIMAL_MODE)
  /\ prev.register_a = 255
  /\ OperandByte = 0
  /\ CarryIn = 1
  /\ cpu.register_a = 0
  /\ Contains(cpu.status, CARRY)
  /\ Contains(cpu.status, ZERO)

\* the bytes whose nibbles are both decimal digits, and their values
BcdBytes == { 16 * h + l : h \in 0 .. 9, l \in 0 .. 9 }

Dec(b) == 10 * (b \div 16) + (b % 16)

Bcd(n) == 16 * (n \div 10) + (n % 10)

\* ADC #m and SBC #m on valid BCD bytes, D set, decimal mode enabled
DecimalPrograms == { At(32768, <<code, m>>) : code \in {105, 233}, m \in BcdBytes }

DecimalRegisters == { Regs(a, 0, 0, 253, p) : a \in BcdBytes, p \in {44, 45} }

InitDecimal == InitPoked(OneRom, DecimalPrograms, DecimalRegisters, {<<>>}, {TRUE})

SpecDecimal == InitDecimal /\ [][NextRun]_vars

\* the last instruction worked in decimal on two valid BCD bytes
DecimalMode ==
  /\ prev.enable_decimal
  /\ Contains(prev.status, DECIMAL_MODE)
  /\ prev.register_a \in BcdBytes
  /\ OperandByte \in BcdBytes

DecimalSum == Dec(prev.register_a) + Dec(OperandByte) + CarryIn

DecimalDifference == Dec(prev.register_a) - Dec(OperandByte) - (1 - CarryIn)

\* C14: with decimal mode enabled and D set, for all valid BCD bytes A and M
\* and carry-in C, ADC leaves A the BCD encoding of (dec(A)+dec(M)+C) mod 100
\* and sets C iff dec(A)+dec(M)+C > 99.
DecimalAdc ==
  (Stepped(105) /\ DecimalMode) =>
    /\ cpu.register_a = Bcd(DecimalSum % 100)
    /\ Contains(cpu.status, CARRY) <=> (DecimalSum > 99)

\* C15: with decimal mode enabled and D set, for all valid BCD bytes A and M
\* and carry-in C, SBC leaves A the BCD encoding of
\* (dec(A) - dec(M) - (1 - C)) mod 100, and leaves C set iff no borrow
\* occurred (dec(A) >= dec(M) + (1 - C)).
DecimalSbc ==
  (Stepped(233) /\ DecimalMode) =>
    /\ cpu.register_a = Bcd((DecimalDifference + 100) % 100)
    /\ Contains(cpu.status, CARRY) <=> (DecimalDifference >= 0)

(***************************************************************************)
(* Zero and negative flags                                                 *)
(***************************************************************************)
\* the instructions whose result lands in A, in X, in Y, in the zero-page
\* byte the operand names, and in the byte the absolute operand names
ResultInA == {169, 138, 152, 104, 41, 9, 73, 105, 233, 10, 74, 42, 106}

ResultInX == {162, 170, 186, 232, 202}

ResultInY == {160, 168, 200, 136}

ResultInZeroPage == {230, 198, 6, 70, 38, 102}

ResultInAbsolute == {238, 206, 14, 78, 46, 110}

ResultBytes == {0, 1, 127, 128, 255}

\* one instruction each: the implied ones and TXS, the immediate ones, the
\* read-modify-write ones on $10 and on PPU DATA ($2007)
ResultPrograms ==
  { At(32768, <<code>>) : code \in {170, 168, 138, 152, 186, 154, 104, 232, 200, 202, 136,
                                     10, 74, 42, 106} }
  \cup { At(32768, <<code, m>>) : code \in {169, 162, 160, 41, 9, 73, 105, 233},
                                   m \in ResultBytes }
  \cup { At(32768, <<code, 16>>) : code \in ResultInZeroPage }
  \cup { At(32768, <<code, 7, 32>>) : code \in ResultInAbsolute }

ResultRegisters ==
  { Regs(a, xy[1], xy[2], s, p) : a \in {0, 1, 128, 255},
                                  xy \in {<<0, 1>>, <<127, 128>>, <<255, 0>>},
                                  s \in {0, 253}, p \in {36, 231} }

\* the host fills $10 and the two stack bytes PLA can pull, and leaves the PPU
\* address at $2000 with $80 stored there
ResultMemories ==
  { << Poke(16, v), Poke(257, v), Poke(510, v),
       Poke(8198, 32), Poke(8198, 0), Poke(8199, 128), Poke(8198, 32), Poke(8198, 0) >> :
      v \in ResultBytes }

InitResult ==
  InitPoked(OneRom, ResultPrograms, ResultRegisters, ResultMemories, {FALSE})

SpecResult == InitResult /\ [][NextRun]_vars

\* the PPU address a read-modify-write of PPU DATA writes to: the one after
\* the address it read
DataWritten ==
  Get(cpu.bus.ppu.vram,
      mirror_vram_addr(prev.bus.ppu,
                       get_addr(prev.bus.ppu.addr) + vram_addr_inc(prev.bus.ppu.ctrl)))

\* the byte the last instruction wrote at its absolute operand
AbsoluteWritten ==
  IF Pointer <= RAM_END THEN RamNow(RamIndex(Pointer)) ELSE DataWritten

\* the destination register or the written memory byte of the last instruction
ResultByte ==
  CASE act.code \in ResultInA -> cpu.register_a
    [] act.code \in ResultInX -> cpu.register_x
    [] act.code \in ResultInY -> cpu.register_y
    [] act.code \in ResultInZeroPage -> RamNow(OperandByte)
    [] act.code \in ResultInAbsolute -> AbsoluteWritten
    [] OTHER -> 0

ResultCodes ==
  ResultInA \cup ResultInX \cup ResultInY \cup ResultInZeroPage \cup ResultInAbsolute

\* an instruction with a result byte completed
Resulted ==
  /\ act.name = "Step"
  /\ act.code \in ResultCodes
  /\ Ok(cpu)
  /\ act.code \in ResultInAbsolute => (Pointer <= RAM_END \/ Pointer = 8199)

\* C16: after each of the loads, transfers, PLA, increments, decrements,
\* logical, arithmetic, shift and rotate instructions, Z is set iff the
\* result byte (the destination register or the written memory byte) is zero
\* and N equals its bit 7; TXS changes no flag.
FlagsFollowResult ==
  /\ Resulted => FlagsOf(ResultByte)
  /\ Stepped(154) => cpu.status = prev.status

(***************************************************************************)
(* Return from interrupt                                                   *)
(***************************************************************************)
RtiPrograms == { At(32768, <<64>>) }

RtiRegisters == { Regs(0, 0, 0, s, 36) : s \in {252, 253, 254, 255} }

\* the host fills the top of the stack page and, past the wrap, its bottom
RtiMemories ==
  { << Poke(509, 128), Poke(510, b), Poke(511, w[1]), Poke(256, w[2]),
       Poke(257, w[3]), Poke(258, w[4]) >> :
      b \in 0 .. 255,
      w \in { <<52, 18, 255, 16>>, <<1, 128, 0, 239>>, <<255, 255, 255, 255>> } }

InitRti == InitPoked(OneRom, RtiPrograms, RtiRegisters, RtiMemories, {FALSE})

SpecRti == InitRti /\ [][NextRun]_vars

\* C17: RTI pulls one byte into P, the resulting P having B clear and U set
\* whatever byte was pulled, then pulls the PC low byte, then the high byte,
\* and sets PC to exactly that word with no +1; S goes up by 3 mod 256.
RtiRestores ==
  Stepped(64) =>
    /\ Pulled(3)
    /\ cpu.status = Insert(Remove(PulledByte(1), BREAK), BREAK2)
    /\ cpu.program_counter = FromLeBytes(PulledByte(2), PulledByte(3))

\* S = 0xFD: P is pulled from $01FE with B set and U clear, the PC low byte
\* from $01FF and the high byte from $0100 past the wrap, and the word pulled
\* is the address after the RTI
RtiRestoresWitness ==
  /\ Stepped(64)
  /\ prev.stack_pointer = 253
  /\ prev.program_counter = 32768
  /\ PulledByte(1) = 17
  /\ cpu.status = 33
  /\ cpu.program_counter = 32769
  /\ cpu.stack_pointer = 0

(***************************************************************************)
(* PRG ROM                                                                 *)
(***************************************************************************)
\* the addresses the program reads: both ends and the middle of each half
PrgTargets ==
  {32768, 32769, 32770, 37428, 49148, 49149, 49151,
   49152, 49153, 53812, 65532, 65533, 65535}

\* the PRG indexes that hold a mark, and the mark: one per half of 32 KiB
PrgMarks(len) ==
  {i \in {4660, 16380, 16381, 16382, 16383, 16384, 16385, 21044, 32764, 32765, 32766, 32767} :
     i < len}

PrgMark(i) == IF i < PRG_MIRROR_LEN THEN 17 + (i % 4) ELSE 145 + (i % 4)

\* a cartridge of `len` PRG bytes: LDA target; BRK at its start, marks in the
\* middle and at the ends, the reset vector $8000 four bytes before its end
PrgBytes(len, target) ==
  [i \in (0 .. 2) \cup (PrgMarks(len) \ {len - 4, len - 3}) \cup {len - 3} |->
     CASE i = 0 -> 173
       [] i = 1 -> LoByte(target)
       [] i = 2 -> HiByte(target)
       [] i = len - 3 -> 128
       [] OTHER -> PrgMark(i)]

PrgRom(len, target) ==
  [BlankRom(len, "Horizontal") EXCEPT
     !.prg_rom.bytes = [i \in {j \in DOMAIN PrgBytes(len, target) :
                                 PrgBytes(len, target)[j] # 0} |->
                          PrgBytes(len, target)[i]]]

PrgRoms == { PrgRom(len, t) : len \in {16384, 32768}, t \in PrgTargets }

InitPrg == InitWith(PrgRoms)

NextPrg == Reset \/ Run \/ Step

SpecPrg == InitPrg /\ [][NextPrg]_vars

\* the PRG byte at an index
PrgAt(index) == Get(cpu.bus.prg_rom.bytes, index)

\* C18: with a 16 KiB PRG ROM every a in 0x8000-0xBFFF reads the same byte as
\* a + 0x4000, the byte prg_rom[a AND 0x3FFF]; with a 32 KiB PRG ROM every a
\* in 0x8000-0xFFFF reads prg_rom[a AND 0x7FFF]; no PRG read indexes past the
\* end of prg_rom.
PrgMirrored ==
  /\ (Stepped(173) /\ Pointer >= ROM_START /\ cpu.bus.prg_rom.len = 16384) =>
       /\ cpu.register_a = PrgAt(And16(Pointer, 16383))
       /\ StoredAt(32768 + And16(Pointer, 16383)) = cpu.register_a
       /\ StoredAt(49152 + And16(Pointer, 16383)) = cpu.register_a
  /\ (Stepped(173) /\ Pointer >= ROM_START /\ cpu.bus.prg_rom.len = 32768) =>
       cpu.register_a = PrgAt(And16(Pointer, 32767))
  /\ cpu.panic # "index out of bounds: prg_rom"

\* a 16 KiB cartridge read at $FFFF, the last byte of the mirror: PRG index
\* 0x3FFF, as $BFFF reads
PrgMirroredWitness ==
  /\ Stepped(173)
  /\ cpu.bus.prg_rom.len = 16384
  /\ Pointer = 65535
  /\ cpu.register_a = PrgMark(16383)
  /\ StoredAt(49151) = PrgMark(16383)
  /\ prev.program_counter = 32768

\* LDA #$5A; STA $10; STA $2001; STA target; BRK
StoreProgram(target) ==
  <<169, 90, 133, 16, 141, 1, 32, 141, LoByte(target), HiByte(target)>>

\* a cartridge that starts with the storing program and ends with the reset
\* vector $8000; the rest holds the marks
StoreBytes(len, target) ==
  [i \in (0 .. 9) \cup (PrgMarks(len) \ {len - 4, len - 3}) \cup {len - 3} |->
     CASE i < 10 -> StoreProgram(target)[i + 1]
       [] i = len - 3 -> 128
       [] OTHER -> PrgMark(i)]

StoreRom(len, target) ==
  [BlankRom(len, "Horizontal") EXCEPT
     !.prg_rom.bytes = [i \in {j \in DOMAIN StoreBytes(len, target) :
                                 StoreBytes(len, target)[j] # 0} |->
                          StoreBytes(len, target)[i]]]

StoreTargets == {32768, 32775, 37428, 49151, 49152, 65532, 65535}

StoreRoms == { StoreRom(len, t) : len \in {16384, 32768}, t \in StoreTargets }

InitStore == InitWith(StoreRoms)

NextStore == AllowRomWrites \/ Reset \/ Run \/ Step

SpecStore == InitStore /\ [][NextStore]_vars

\* the last action was an STA absolute into the ROM range, ROM writes not allowed
StoredIntoRom ==
  /\ act.name = "Step"
  /\ act.code = 141
  /\ Pointer >= ROM_START
  /\ ~prev.bus.allow_rom_writes

\* C19: with allow_rom_writes false a write to any address in 0x8000-0xFFFF
\* ends in the ROM-write error and leaves PRG ROM, CPU RAM and PPU state
\* unchanged.
RomWriteRefused ==
  StoredIntoRom =>
    /\ cpu.panic = "Attempted to write to ROM!"
    /\ cpu.bus.prg_rom = prev.bus.prg_rom
    /\ cpu.bus.cpu_vram = prev.bus.cpu_vram
    /\ cpu.bus.ppu = prev.bus.ppu

\* the store to $FFFF of a 16 KiB cartridge, after RAM and the PPU mask were
\* written: all three are as they were
RomWriteRefusedWitness ==
  /\ StoredIntoRom
  /\ Pointer = 65535
  /\ prev.bus.prg_rom.len = 16384
  /\ prev.register_a = 90
  /\ RamNow(16) = 90
  /\ cpu.bus.ppu.mask = 90
  /\ Get(cpu.bus.prg_rom.bytes, 16383) = PrgMark(16383)
  /\ phase = "panicked"

\* the last action was an STA absolute into the ROM range, ROM writes allowed
StoredIntoWritableRom ==
  /\ act.name = "Step"
  /\ act.code = 141
  /\ Ok(prev)
  /\ Pointer >= ROM_START
  /\ prev.bus.allow_rom_writes

\* C38: with allow_rom_writes true, for a 16 KiB and a 32 KiB PRG ROM and
\* every address a in 0x8000-0xFFFF, the reset vector included, a write of
\* byte d to a completes without failure and a following mem_read(a) returns
\* d: write and read use the same mirrored index.
RomWriteReadBack ==
  StoredIntoWritableRom =>
    /\ Ok(cpu)
    /\ Bus_mem_read(cpu.bus, Pointer).v = prev.register_a

(***************************************************************************)
(* PPU registers on the bus                                                *)
(***************************************************************************)
\* the registers, their first mirror, a mirror in the middle, the last mirror
PpuTargets == (8192 .. 8207) \cup (10936 .. 10943) \cup (16376 .. 16383)

\* cartridges whose program is LDA target
PpuRoms == { PrgRom(32768, t) : t \in PpuTargets }

\* the host sets the PPU mask, or starts the PPU address at $3Fxx or $20xx
PpuWrites == { Poke(8193, 90), Poke(8198, 63), Poke(8198, 32) }

InitPpu == InitWith(PpuRoms)

NextPpu ==
  \/ Reset
  \/ \E w \in PpuWrites : HostWrite(w.addr, w.data)
  \/ Run
  \/ Step

SpecPpu == InitPpu /\ [][NextPpu]_vars

\* CTRL, MASK, OAMADDR, SCROLL, ADDR
WriteOnly == {8192, 8193, 8195, 8197, 8198}

\* the last action was an LDA absolute of a PPU register or of a mirror
ReadPpu ==
  /\ act.name = "Step"
  /\ act.code = 173
  /\ Pointer \in 8192 .. PPU_END

\* C20: a CPU read of CTRL, MASK, OAMADDR, SCROLL or ADDR, or of any of
\* their mirrors in 0x2008-0x3FFF (address AND 0x2007), ends in the
\* write-only-read error and changes no PPU state; reads of STATUS, OAMDATA
\* and DATA and of their mirrors do not end in that error.
WriteOnlyRefused ==
  ReadPpu =>
    IF And16(Pointer, 8199) \in WriteOnly
    THEN /\ cpu.panic = "Attempt to read from write-only PPU address"
         /\ cpu.bus.ppu = prev.bus.ppu
    ELSE cpu.panic # "Attempt to read from write-only PPU address"

\* the last mirror of ADDR, $3FFE, read after the host wrote the PPU mask; and
\* the error is the read's, nothing before it
WriteOnlyRefusedWitness ==
  /\ ReadPpu
  /\ Pointer = 16382
  /\ prev.bus.ppu.mask = 90
  /\ Ok(prev)
  /\ cpu.panic = "Attempt to read from write-only PPU address"
  /\ cpu.bus.ppu.mask = 90

(***************************************************************************)
(* OAM                                                                     *)
(***************************************************************************)
\* LDA #d; STA $4014 for every page d, and LDA #v; STA $2004; LDA $2004
OamPrograms ==
  { At(32768, <<169, d, 141, 20, 64>>) : d \in 0 .. 255 }
  \cup { At(32768, <<169, v, 141, 4, 32, 173, 4, 32>>) : v \in {0, 1, 128, 255} }

OamRegisters == { Regs(0, 0, 0, 253, 36) }

\* the host marks both ends of pages 2 and 7 and sets OAMADDR
OamMemories ==
  { << Poke(512, 170), Poke(767, 187), Poke(1792, 204), Poke(2047, 221), Poke(8195, a) >> :
      a \in {0, 16, 255} }

InitOam == InitPoked(OneRom, OamPrograms, OamRegisters, OamMemories, {FALSE})

SpecOam == InitOam /\ [][NextRun]_vars

\* the last action was an STA absolute, an LDA absolute, at `addr`
StoredTo(addr) == act.name = "Step" /\ act.code = 141 /\ Pointer = addr

LoadedFrom(addr) == act.name = "Step" /\ act.code = 173 /\ Pointer = addr

\* the OAM byte at an index, after the last action and before it
OamNow(i) == Get(cpu.bus.ppu.oam_data, i % 256)

OamBefore(i) == Get(prev.bus.ppu.oam_data, i % 256)

\* C21: a CPU write of byte d to 0x4014 copies the 256 bytes of CPU page
\* d << 8 into OAM starting at the current oam_addr (wrapping within the 256
\* OAM bytes), advances the cycle counter by 513 or 514, and completes
\* without failure for every d.
OamDmaCopies ==
  StoredTo(16404) =>
    /\ Ok(cpu)
    /\ cpu.bus.cycles - prev.bus.cycles \in {513, 514}
    /\ prev.register_a < 32 =>
         \A i \in 0 .. 255 :
           OamNow(prev.bus.ppu.oam_addr + i) = RamBefore(RamIndex(prev.register_a * 256 + i))

\* C22: a CPU read of OAMDATA (0x2004) returns oam[oam_addr] and leaves
\* oam_addr unchanged; a CPU write of byte v to OAMDATA stores v at
\* oam[oam_addr] and then sets oam_addr to (oam_addr + 1) mod 256.
OamDataAccess ==
  /\ LoadedFrom(8196) =>
       /\ Ok(cpu)
       /\ cpu.register_a = OamBefore(prev.bus.ppu.oam_addr)
       /\ cpu.bus.ppu = prev.bus.ppu
  /\ StoredTo(8196) =>
       /\ Ok(cpu)
       /\ OamNow(prev.bus.ppu.oam_addr) = prev.register_a
       /\ cpu.bus.ppu.oam_addr = (prev.bus.ppu.oam_addr + 1) % 256

(***************************************************************************)
(* PPU STATUS                                                              *)
(***************************************************************************)
\* the host enables the NMI, ticks the bus and reads STATUS
NextStatus ==
  \/ \E w \in NmiWrites : HostWrite(w.addr, w.data)
  \/ \E t \in NmiTicks : HostTick(t)
  \/ RegisterRead("ReadStatus", 8194)

SpecStatus == InitNmi /\ [][NextStatus]_vars

\* C23: a read of STATUS (0x2002) returns the status byte as it was before
\* the read and then clears the VBLANK bit, leaving every other status bit
\* unchanged; a second read with no intervening tick returns VBLANK clear.
StatusRead ==
  /\ act.name = "ReadStatus" =>
       /\ Ok(cpu)
       /\ act.code = prev.bus.ppu.status
       /\ cpu.bus.ppu.status = Remove(prev.bus.ppu.status, VBLANK_FLAG)
  /\ (act.name = "ReadStatus" /\ act2.name = "ReadStatus") =>
       ~Contains(act.code, VBLANK_FLAG)

\* two reads in a row during vertical blank: the first returns VBLANK set,
\* the second clear
StatusReadWitness ==
  /\ act2.name = "ReadStatus"
  /\ act2.code = VBLANK_FLAG
  /\ prev2.bus.ppu.scanline = VBLANK_SCANLINE
  /\ act.name = "ReadStatus"
  /\ act.code = 0
  /\ cpu.bus.ppu.status = 0

(***************************************************************************)
(* PPU SCROLL, ADDR and DATA                                               *)
(***************************************************************************)
\* $20 and $FF: as address bytes they give $2020, $20FF, $3F20 and $3FFF
ToggleBytes == {32, 255}

\* the host reads STATUS and DATA and writes SCROLL, ADDR, DATA and CTRL, in
\* any order
NextToggle ==
  \/ RegisterRead("ReadStatus", 8194)
  \/ RegisterRead("ReadData", 8199)
  \/ \E v \in {17} : RegisterWrite("WriteScroll", 8197, v)
  \/ \E v \in ToggleBytes : RegisterWrite("WriteAddr", 8198, v)
  \/ \E v \in {90} : RegisterWrite("WriteData", 8199, v)
  \/ \E v \in {VRAM_ADDR_INC} : RegisterWrite("WriteCtrl", 8192, v)

SpecToggle == InitNmi /\ [][NextToggle]_vars

\* the bytes of the VRAM address and the scroll position
AddrHi(c) == c.bus.ppu.addr.hi_value

AddrLo(c) == c.bus.ppu.addr.lo_value

ScrollX(c) == c.bus.ppu.scroll.x

ScrollY(c) == c.bus.ppu.scroll.y

\* the last action and the one that follows it
Then(first, second) == act.name = first /\ act'.name = second

\* the last two actions and the one that follows them
ThenThen(first, second, third) ==
  act2.name = first /\ act.name = second /\ act'.name = third

\* C24: after any read of STATUS, however many SCROLL or ADDR writes came
\* before it, the next write to SCROLL or ADDR is a first write: a SCROLL
\* write sets X-scroll and an ADDR write sets the high byte of the VRAM
\* address; the write after it sets Y-scroll, respectively the low byte.
FirstWriteAfterStatus ==
  [][ /\ Then("ReadStatus", "WriteScroll") => ScrollX(cpu') = act'.code
      /\ Then("ReadStatus", "WriteAddr") =>
           /\ AddrHi(cpu') = And8(act'.code, 63)
           /\ AddrLo(cpu') = AddrLo(cpu)
      /\ ThenThen("ReadStatus", "WriteScroll", "WriteScroll") =>
           /\ ScrollY(cpu') = act'.code
           /\ ScrollX(cpu') = ScrollX(cpu)
      /\ ThenThen("ReadStatus", "WriteAddr", "WriteAddr") =>
           /\ AddrLo(cpu') = act'.code
           /\ AddrHi(cpu') = AddrHi(cpu) ]_vars

\* C29: SCROLL and ADDR share one write toggle: after a STATUS read, one
\* SCROLL write followed by one ADDR write makes the ADDR write set the low
\* address byte, and one ADDR write followed by one SCROLL write makes the
\* SCROLL write set Y-scroll.
SharedToggle ==
  [][ /\ ThenThen("ReadStatus", "WriteScroll", "WriteAddr") =>
           /\ AddrLo(cpu') = act'.code
           /\ AddrHi(cpu') = AddrHi(cpu)
      /\ ThenThen("ReadStatus", "WriteAddr", "WriteScroll") =>
           /\ ScrollY(cpu') = act'.code
           /\ ScrollX(cpu') = ScrollX(cpu) ]_vars

\* C30: after any sequence of ADDR writes and DATA reads and writes, with
\* increment 1 or 32, the PPU VRAM address is at most 0x3FFF.
AddrMirrored == get_addr(cpu.bus.ppu.addr) <= ADDR_MIRROR_MASK

\* $FF written as the high byte is kept as $3F, so with $FF as the low byte the
\* address is $3FFF
AddrMirroredWitness ==
  /\ act2.name = "WriteAddr"
  /\ act2.code = 255
  /\ act.name = "WriteAddr"
  /\ act.code = 255
  /\ AddrHi(prev2) = 0
  /\ get_addr(cpu.bus.ppu.addr) = ADDR_MIRROR_MASK

\* the CHR indexes that hold a mark, and the mark
ChrMarks == {0, 1, 2, 32, 64, 8128, 8160, 8190, 8191}

ChrMark(i) == (i % 251) + 3

\* a cartridge whose CHR ROM holds the marks
ChrRom(mirroring) ==
  [BlankRom(32768, mirroring) EXCEPT !.chr_rom.bytes = [i \in ChrMarks |-> ChrMark(i)]]

ChrRoms == { ChrRom("Horizontal"), ChrRom("Vertical") }

\* CTRL and the VRAM address the host starts at: CHR, the end of CHR, the
\* start of the nametables, the end of the second and the end of the last
DataStarts ==
  { <<0, 0>>, <<VRAM_ADDR_INC, 0>>, <<0, 8190>>, <<VRAM_ADDR_INC, 8128>>,
    <<0, 8192>>, <<VRAM_ADDR_INC, 8192>>, <<0, 10238>>, <<VRAM_ADDR_INC, 11263>>,
    <<0, 12285>> }

\* the host sets CTRL and the address, writes three bytes through DATA and
\* sets the address again
DataMemories ==
  { << Poke(8192, s[1]), Poke(8198, HiByte(s[2])), Poke(8198, LoByte(s[2])),
       Poke(8199, 90), Poke(8199, 91), Poke(8199, 92),
       Poke(8198, HiByte(s[2])), Poke(8198, LoByte(s[2])) >> : s \in DataStarts }

InitData == InitPoked(ChrRoms, NmiPrograms, NmiRegisters, DataMemories, {FALSE})

\* the host reads DATA, again and again
NextData == RegisterRead("ReadData", 8199)

SpecData == InitData /\ [][NextData]_vars

\* the VRAM address of a CPU's PPU
VramAddr(c) == get_addr(c.bus.ppu.addr)

\* the byte at an address of CHR or nametable space
VramByte(c, addr) ==
  IF addr <= 8191 THEN Get(c.bus.ppu.chr_rom.bytes, addr)
  ELSE Get(c.bus.ppu.vram, mirror_vram_addr(c.bus.ppu, addr))

\* the step CTRL bit 2 selects
Increment(c) == IF Contains(c.bus.ppu.ctrl, VRAM_ADDR_INC) THEN 32 ELSE 1

\* C25: for a current VRAM address in CHR (0x0000-0x1FFF) or nametable
\* (0x2000-0x2FFF) space, a read of DATA returns the previous contents of the
\* read buffer, refills the buffer with the byte at the current address, and
\* then advances the address by 1 if CTRL bit 2 is clear or by 32 if it is
\* set; so with increment 1 the second of two consecutive reads returns the
\* byte stored at the first read's address.
DataReadBuffered ==
  /\ (act.name = "ReadData" /\ VramAddr(prev) <= 12287) =>
       /\ Ok(cpu)
       /\ act.code = prev.bus.ppu.internal_data_buf
       /\ cpu.bus.ppu.internal_data_buf = VramByte(prev, VramAddr(prev))
       /\ VramAddr(cpu) = (VramAddr(prev) + Increment(prev)) % 16384
  /\ (act.name = "ReadData" /\ act2.name = "ReadData" /\ VramAddr(prev2) <= 12287
        /\ VramAddr(prev) <= 12287 /\ Increment(prev2) = 1) =>
       act.code = VramByte(prev2, VramAddr(prev2))

\* increment 32 from $2000: the first read returned the empty buffer, the
\* second returns the $5A the host wrote at $2000 and buffers the $5B it wrote
\* at $2020
DataReadBufferedWitness ==
  /\ act2.name = "ReadData"
  /\ act2.code = 0
  /\ VramAddr(prev2) = 8192
  /\ act.name = "ReadData"
  /\ act.code = 90
  /\ VramAddr(prev) = 8224
  /\ cpu.bus.ppu.internal_data_buf = 91
  /\ VramAddr(cpu) = 8256

\* the last tick moved the scanline counter to 241
VblankEntered ==
  /\ act.name = "HostTick"
  /\ prev.bus.ppu.scanline = VBLANK_SCANLINE - 1
  /\ cpu.bus.ppu.scanline = VBLANK_SCANLINE

\* C26: when a PPU tick moves the scanline counter to 241, the VBLANK bit of
\* STATUS is set whether or not CTRL's NMI-enable bit is set; nmi_pending is
\* set by that tick iff the NMI-enable bit is set.
VblankSet ==
  VblankEntered =>
    /\ Contains(cpu.bus.ppu.status, VBLANK_FLAG)
    /\ cpu.bus.ppu.nmi_interrupt =
         (prev.bus.ppu.nmi_interrupt \/ Contains(prev.bus.ppu.ctrl, GENERATE_NMI))

(***************************************************************************)
(* trace                                                                   *)
(***************************************************************************)
\* `cpu.mem_read(sum)`, the address being in `sum`
read_at(sum) == mem_read(sum.st, sum.v)

\* `cpu.mem_read(cpu.program_counter + n)`
trace_byte(c, n) == read_at(Add16(c, c.program_counter, n))

\* `let value = cpu.mem_read(target)`: the CPU after the read of the operand
read_target(target) == mem_read(target.st, target.v).st

\* AddressingMode::None, length 3: `let mem_addr = cpu.mem_read_u16(cpu.program_counter + 1)`
\* and, for JMP indirect (0x6C), the word it points at
trace_jump(c, code) ==
  IF code = 108
  THEN indirect_ref(deref_u16(Add16(c, c.program_counter, 1))).st
  ELSE deref_u16(Add16(c, c.program_counter, 1)).st

\* AddressingMode::None: `match opcode.len`
trace_none(c, code) ==
  CASE OpLen(code) = 1 -> c
    [] OpLen(code) = 2 -> Add16(c, c.program_counter, 2).st
    [] OpLen(code) = 3 -> trace_jump(c, code)
    [] OTHER -> c

\* `let opcode_args = match opcode.mode`: the reads each addressing mode makes
trace_args(c, code, instr_byte_two, instr_byte_three) ==
  IF ~Ok(c) THEN c
  ELSE CASE OpMode(code) = "None" -> trace_none(c, code)
         [] OpMode(code) = "Implied" -> c
         [] OpMode(code) = "Immediate" -> trace_byte(c, 1).st
         [] OpMode(code) = "ZeroPage" -> mem_read(c, instr_byte_two).st
         [] OpMode(code) = "ZeroPage_X" ->
              mem_read(c, WrapAdd8(instr_byte_two, c.register_x)).st
         [] OpMode(code) = "ZeroPage_Y" ->
              mem_read(c, WrapAdd8(instr_byte_two, c.register_y)).st
         [] OpMode(code) = "Indirect_X" ->
              read_target(read_zero_page_word(c, WrapAdd8(c.register_x, instr_byte_two)))
         [] OpMode(code) = "Indirect_Y" ->
              read_target(plus16(mem_read_u16(c, instr_byte_two), c.register_y))
         [] OpMode(code) = "Indirect" ->
              mem_read_u16(c, FromLeBytes(instr_byte_two, instr_byte_three)).st
         [] OpMode(code) = "Absolute" ->
              mem_read(c, FromLeBytes(instr_byte_two, instr_byte_three)).st
         [] OpMode(code) = "Absolute_X" ->
              read_target(mem_read_u16(c,
                WrapAdd16(FromLeBytes(instr_byte_two, instr_byte_three), c.register_x)))
         [] OpMode(code) = "Absolute_Y" ->
              read_target(mem_read_u16(c,
                WrapAdd16(FromLeBytes(instr_byte_two, instr_byte_three), c.register_y)))
         [] OTHER -> c

\* `let opcode = opcodes.get(&instr_byte_one).expect(..)`, then the operand
trace_decoded(instr_byte_one, instr_byte_two, three) ==
  trace_args(lookup(three.st, instr_byte_one), instr_byte_one, instr_byte_two, three.v)

\* `let instr_byte_three: u8 = cpu.mem_read(cpu.program_counter + 2)`
trace_three(one, two) == trace_decoded(one.v, two.v, trace_byte(two.st, 2))

\* `let instr_byte_two: u8 = cpu.mem_read(cpu.program_counter + 1)`
trace_two(one) == trace_three(one, trace_byte(one.st, 1))

\* trace(cpu): the CPU its reads leave behind; the String it returns is not modelled
trace(c) == trace_two(mem_read(c, c.program_counter))

\* the host calls trace(&cpu) between instructions
Trace ==
  /\ phase \in {"ready", "running"}
  /\ used.traces < MaxTraces
  /\ cpu' = trace(cpu)
  /\ phase' = IF Ok(cpu') THEN phase ELSE "panicked"
  /\ Record("Trace", -1)
  /\ used' = [used EXCEPT !.traces = @ + 1]

\* one instruction of every addressing mode trace formats, with operands in
\* RAM and in the PPU's registers, and a byte the table lacks
TracePrograms ==
  { At(32768, p) : p \in
      { <<173, 2, 32>>, <<173, 7, 32>>, <<173, 0, 32>>, <<173, 16, 0>>,
        <<141, 7, 32>>, <<169, 5>>, <<165, 16>>, <<181, 16>>, <<182, 16>>,
        <<161, 16>>, <<177, 16>>, <<189, 16, 0>>, <<185, 16, 0>>,
        <<76, 0, 128>>, <<108, 16, 0>>, <<108, 255, 0>>, <<208, 2>>,
        <<232>>, <<10>>, <<139, 1>> } }

TraceRegisters == { Regs(0, i, i, 253, 36) : i \in {0, 1} }

\* the host leaves a pointer at $10 (to RAM, to STATUS or to DATA) and, in
\* the last, sets the VRAM address to $2100
TraceMemories ==
  { << Poke(16, 0), Poke(17, 2) >>,
    << Poke(16, 2), Poke(17, 32) >>,
    << Poke(16, 7), Poke(17, 32), Poke(8198, 33), Poke(8198, 0) >> }

InitTrace == InitPoked(OneRom, TracePrograms, TraceRegisters, TraceMemories, {FALSE})

NextTrace == Trace \/ Run \/ Step

SpecTrace == InitTrace /\ [][NextTrace]_vars

\* the last operation was a call of trace that returned
Traced == act.name = "Trace" /\ Ok(cpu)

\* C27: a call of trace leaves the CPU's registers, the RAM and the PPU (its
\* STATUS, write toggle, VRAM address and read buffer among the rest) as
\* they were before the call
TraceChangesNothing ==
  Traced =>
    /\ cpu.register_a = prev.register_a
    /\ cpu.register_x = prev.register_x
    /\ cpu.register_y = prev.register_y
    /\ cpu.status = prev.status
    /\ cpu.stack_pointer = prev.stack_pointer
    /\ cpu.program_counter = prev.program_counter
    /\ cpu.bus.cpu_vram = prev.bus.cpu_vram
    /\ cpu.bus.ppu = prev.bus.ppu

(***************************************************************************)
(* The opcode table                                                        *)
(***************************************************************************)
\* every byte as the opcode of the first instruction, before two operand bytes
OpcodePrograms == { At(32768, <<code, 16, 2>>) : code \in 0..255 }

InitOpcodes == InitReady(OneRom, OpcodePrograms, NmiRegisters)

SpecOpcodes == InitOpcodes /\ [][NextRun]_vars

\* the twelve bytes of HLT
HltCodes == {2, 18, 34, 50, 66, 82, 98, 114, 146, 178, 210, 242}

\* the last operation was an iteration of the loop that fetched a byte as opcode
Decoded == act.name = "Step" /\ act.code >= 0

\* C28: whatever byte the loop fetches as an opcode, the table has an entry
\* for it: the iteration never ends in the unknown-opcode failure, and ends
\* in the illegal-halt failure for the twelve HLT bytes
EveryByteDecodes ==
  Decoded =>
    /\ cpu.panic # "OpCode is not recognized"
    /\ act.code \in HltCodes => cpu.panic = "Illegal HLT instruction received."

(***************************************************************************)
(* PPU DATA: the palette and the nametables                                *)
(***************************************************************************)
\* the host sets the VRAM address: two writes to ADDR
Seek(addr) == << Poke(8198, HiByte(addr)), Poke(8198, LoByte(addr)) >>

\* the nametable addresses the host writes $5A through, each with the
\* address it moves to afterwards
AliasPairs ==
  { <<8192, 9216>>, <<8192, 10240>>, <<9216, 11264>>, <<10240, 11264>>,
    <<9215, 10239>>, <<10239, 12287>>, <<11263, 12287>>, <<8193, 8192>> }

\* the host writes through one address and moves to another; or fills the
\* palette and the nametable byte under it; or only sets CTRL and the address
VramScripts ==
  { Seek(s[1]) \o << Poke(8199, 90) >> \o Seek(s[2]) : s \in AliasPairs }
    \cup { Seek(12032) \o << Poke(8199, 90) >> \o Seek(16128) \o << Poke(8199, 77) >>
             \o Seek(16128),
           Seek(16144) \o << Poke(8199, 78) >> \o Seek(16128),
           Seek(16132) \o << Poke(8199, 79) >> \o Seek(16148),
           << Poke(8192, VRAM_ADDR_INC) >> \o Seek(16128) \o << Poke(8199, 80) >>
             \o Seek(16128) }

\* the host only sets the address: the nametables' corners, the palette's
\* last entries and the addresses above them
SeekScripts == { Seek(a) : a \in {8192, 10239, 10240, 12287, 16158, 16160, 16383} }

\* a Horizontal or Vertical cartridge after any script, a FourScreen one
\* after a script that only sets the address
InitVram ==
  \/ InitPoked(ChrRoms, NmiPrograms, NmiRegisters, VramScripts \cup SeekScripts, {FALSE})
  \/ InitPoked({ChrRom("FourScreen")}, NmiPrograms, NmiRegisters, SeekScripts, {FALSE})

\* the host reads DATA or writes $5B to it
NextVram ==
  \/ RegisterRead("ReadData", 8199)
  \/ RegisterWrite("WriteData", 8199, 91)

SpecVram == InitVram /\ [][NextVram]_vars

\* the last operation was a read of DATA with the VRAM address in the palette
PaletteRead ==
  act.name = "ReadData" /\ Ok(prev) /\ VramAddr(prev) \in 16128 .. 16383

\* the last operation was a write to DATA with the VRAM address in the palette
PaletteWrite ==
  act.name = "WriteData" /\ Ok(prev) /\ VramAddr(prev) \in 16128 .. 16383

\* the palette index of an address: folded modulo 32, entries $10, $14,
\* $18 and $1C being those at $00, $04, $08 and $0C
PaletteIndex(addr) ==
  IF (addr % 32) \in {16, 20, 24, 28} THEN (addr % 32) - 16 ELSE addr % 32

\* C31: a read of DATA with the VRAM address in $3F00-$3FFF returns the
\* palette entry directly, refills the read buffer from the nametable byte
\* mirrored underneath the address, and then increments the address
PaletteReadDirect ==
  PaletteRead =>
    /\ Ok(cpu)
    /\ act.code = Get(prev.bus.ppu.palette_table, PaletteIndex(VramAddr(prev)))
    /\ cpu.bus.ppu.internal_data_buf = VramByte(prev, VramAddr(prev) - 4096)
    /\ VramAddr(cpu) = (VramAddr(prev) + Increment(prev)) % 16384

\* C32: for every VRAM address in $3F00-$3FFF a DATA read or write completes
\* and uses the palette entry the address folds to: a read returns it, a
\* write stores its byte there, so that a byte written through $3F10 is the
\* one read back through $3F00
PaletteFolded ==
  /\ PaletteRead =>
       /\ Ok(cpu)
       /\ act.code = Get(prev.bus.ppu.palette_table, PaletteIndex(VramAddr(prev)))
  /\ PaletteWrite =>
       /\ Ok(cpu)
       /\ Get(cpu.bus.ppu.palette_table, PaletteIndex(VramAddr(prev))) = act.code

\* the nametable addresses that share their bytes with `addr`, as the
\* cartridge's mirroring pairs the four tables
Aliases(mirroring, addr) ==
  LET table == (addr - 8192) \div 1024
  IN CASE mirroring = "Horizontal" ->
            {IF table \in {0, 2} THEN addr + 1024 ELSE addr - 1024}
       [] mirroring = "Vertical" ->
            {IF table \in {0, 1} THEN addr + 2048 ELSE addr - 2048}
       [] OTHER -> {}

\* the last operation was a read of DATA or a write to it, the VRAM address
\* being in one of the nametables
NametableAccess ==
  /\ act.name \in {"ReadData", "WriteData"}
  /\ Ok(prev)
  /\ VramAddr(prev) \in 8192 .. 12287

\* the host has not yet read or written DATA: the PPU is as the scripts left
\* it (the mirroring is the cartridge's and no operation assigns it)
Untouched == used.accesses = 0

\* C33: under Horizontal mirroring a and a + $400 map to the same VRAM byte
\* for a in $2000-$23FF and in $2800-$2BFF, and tables 0 and 2 to different
\* bytes; under Vertical mirroring a and a + $800 map to the same byte for a
\* in $2000-$27FF, and tables 0 and 1 to different bytes. A byte written to
\* DATA through one alias is the byte a DATA read through the other buffers.
NametableMirrored ==
  /\ (Untouched /\ cpu.bus.ppu.mirroring = "Horizontal") =>
       /\ \A a \in (8192 .. 9215) \cup (10240 .. 11263) :
            mirror_vram_addr(cpu.bus.ppu, a) = mirror_vram_addr(cpu.bus.ppu, a + 1024)
       /\ \A a \in 8192 .. 9215 :
            mirror_vram_addr(cpu.bus.ppu, a) # mirror_vram_addr(cpu.bus.ppu, a + 2048)
  /\ (Untouched /\ cpu.bus.ppu.mirroring = "Vertical") =>
       /\ \A a \in 8192 .. 10239 :
            mirror_vram_addr(cpu.bus.ppu, a) = mirror_vram_addr(cpu.bus.ppu, a + 2048)
       /\ \A a \in 8192 .. 9215 :
            mirror_vram_addr(cpu.bus.ppu, a) # mirror_vram_addr(cpu.bus.ppu, a + 1024)
  /\ (NametableAccess /\ act.name = "WriteData") =>
       \A a \in Aliases(prev.bus.ppu.mirroring, VramAddr(prev)) :
         VramByte(cpu, a) = act.code
  /\ (NametableAccess /\ act.name = "ReadData") =>
       \A a \in Aliases(prev.bus.ppu.mirroring, VramAddr(prev)) :
         cpu.bus.ppu.internal_data_buf = VramByte(prev, a)

\* Horizontal mirroring: the host wrote $5A through $2000 and moved to $2400;
\* the first read buffered it and the second returns it
NametableMirroredWitness ==
  /\ cpu.bus.ppu.mirroring = "Horizontal"
  /\ act2.name = "ReadData"
  /\ VramAddr(prev2) = 9216
  /\ Get(prev2.bus.ppu.vram, 0) = 90
  /\ act.name = "ReadData"
  /\ act.code = 90
  /\ Ok(cpu)

\* C39: whatever the cartridge's mirroring (Horizontal, Vertical or
\* FourScreen) and whatever the VRAM address in $2000-$2FFF, the index a DATA
\* read or write uses into the 2 KiB vram array is in 0..2047 and the access
\* does not fail
NametableInBounds ==
  NametableAccess =>
    /\ mirror_vram_addr(prev.bus.ppu, VramAddr(prev)) \in 0 .. 2047
    /\ Ok(cpu)

(***************************************************************************)
(* AXS                                                                     *)
(***************************************************************************)
AxsBytes == {0, 1, 15, 128, 240, 255}

\* AXS #m
AxsPrograms == { At(32768, <<203, m>>) : m \in AxsBytes }

\* A and X, with CARRY clear and set
AxsRegisters ==
  { Regs(a, x, 0, 253, p) : a \in AxsBytes, x \in AxsBytes, p \in {36, 37} }

InitAxs == InitReady(OneRom, AxsPrograms, AxsRegisters)

SpecAxs == InitAxs /\ [][NextRun]_vars

\* A AND X before the instruction
AxsAnd == And8(prev.register_a, prev.register_x)

\* C35: AXS (0xCB) with immediate operand m sets X to ((A AND X) - m) mod
\* 256, leaves A unchanged, sets Z and N from the new X, and leaves C set iff
\* (A AND X) >= m, whatever C was before the instruction
AxsSubtracts ==
  Stepped(203) =>
    /\ cpu.register_x = (AxsAnd - OperandByte + 256) % 256
    /\ cpu.register_a = prev.register_a
    /\ Contains(cpu.status, ZERO) = (cpu.register_x = 0)
    /\ Contains(cpu.status, NEGATIVE) = (cpu.register_x >= 128)
    /\ Contains(cpu.status, CARRY) = (AxsAnd >= OperandByte)

(***************************************************************************)
(* The B and U bits of P                                                   *)
(***************************************************************************)
\* every byte as an opcode, and programs that pull P from the stack
PullPrograms ==
  OpcodePrograms \cup
    { At(32768, p) : p \in { <<8, 40>>, <<40, 8, 40>>, <<64>>, <<40, 64>>,
                              <<56, 248, 120, 8, 40>>, <<104, 40>> } }

\* what the host leaves where the first pulls read
PulledBytes == {0, 16, 48, 255}

PulledMemories ==
  { << Poke(510, b), Poke(511, b), Poke(256, 128) >> : b \in PulledBytes }

\* the registers are those reset() leaves
InitPull == InitPoked(OneRom, PullPrograms, NmiRegisters, PulledMemories, {FALSE})

SpecPull == InitPull /\ [][NextRun]_vars

\* C36: in every state reached from reset() by executing instructions,
\* whatever the opcodes and the stack contents, bit 5 (U) of P is 1 and bit 4
\* (B) is 0; B is set only in the copy of P that PHP writes to the stack
StatusBits ==
  /\ Contains(cpu.status, BREAK2)
  /\ ~Contains(cpu.status, BREAK)
  /\ Stepped(8) =>
       Get(cpu.bus.cpu_vram, STACK + prev.stack_pointer) =
         Insert(Insert(prev.status, BREAK), BREAK2)

\* PLP pulled $FF: P is $EF, B clear and U set
StatusBitsWitness ==
  /\ Stepped(40)
  /\ Get(prev.bus.cpu_vram, STACK + cpu.stack_pointer) = 255
  /\ cpu.status = 239

(***************************************************************************)
(* PC at the top of the address space                                      *)
(***************************************************************************)
\* NOP, INX, INY, CLC, SEC, TAX
WrapImplied == {234, 232, 200, 24, 56, 170}

\* LDA, LDX, LDY, ORA with an immediate operand
WrapImmediate == {169, 162, 160, 9}

\* a one-byte instruction at $FFFF, a two-byte one at $FFFE, and RTS
WrapPrograms ==
  { At(65535, <<code>>) : code \in WrapImplied }
    \cup { At(65534, <<code, m>>) : code \in WrapImmediate, m \in {5, 128} }
    \cup { At(32768, <<96>>) }

\* the return addresses RTS pulls, low byte first
WrapReturns == { <<255, 255>>, <<254, 255>>, <<51, 18>>, <<255, 0>> }

WrapMemories == { << Poke(510, r[1]), Poke(511, r[2]) >> : r \in WrapReturns }

InitWrap == InitPoked(OneRom, WrapPrograms, NmiRegisters, WrapMemories, {FALSE})

SpecWrap == InitWrap /\ [][NextRun]_vars

\* the last iteration fetched its opcode at `pc`
FetchedAt(pc) == act.name = "Step" /\ Ok(prev) /\ prev.program_counter = pc

\* C37: all PC arithmetic wraps modulo 65536 without failing: the fetch of
\* an opcode at PC = $FFFF leaves PC = $0000, the advance past the operands
\* of an instruction at the top of the address space wraps, and RTS after
\* pulling $FFFF sets PC = $0000
PcWraps ==
  /\ (FetchedAt(65535) /\ act.code \in WrapImplied) =>
       (Ok(cpu) /\ cpu.program_counter = 0)
  /\ (FetchedAt(65534) /\ act.code \in WrapImmediate) =>
       (Ok(cpu) /\ cpu.program_counter = 0)
  /\ (FetchedAt(32768) /\ act.code = 96 /\ RamBefore(510) = 255 /\ RamBefore(511) = 255) =>
       (Ok(cpu) /\ cpu.program_counter = 0)

(***************************************************************************)
(* PPU::tick                                                               *)
(***************************************************************************)
\* what the last of `times` further calls of tick(cycles) hands back, r being
\* what the call before them did: the first half of the calls, then the rest
RECURSIVE ticked(_, _, _)
ticked(r, cycles, times) ==
  CASE times = 0 \/ r.panic # "none" -> r
    [] times = 1 -> PPU_tick(r.st, cycles)
    [] OTHER -> ticked(ticked(r, cycles, times \div 2), cycles, times - (times \div 2))

\* how often tick(255) was called before: never, up to the line before
\* vblank, and up to the last lines of the frame
FrameStarts == {0, 322, 349, 350}

\* the dots of one call
FrameDots == {0, 1, 86, 255}

\* the host wrote CTRL (NMI enabled or not), STATUS has sprite-0 hit set or
\* not, and tick(255) was called some number of times
InitFrame ==
  /\ \E overflow_checks \in BOOLEAN, ctrl \in {0, GENERATE_NMI},
        status \in {0, SPRITE_ZERO_HIT}, times \in FrameStarts :
       cpu = [ready_cpu(BlankRom(32768, "Horizontal"), overflow_checks,
                        At(32768, <<232, 232, 0>>), Regs(0, 0, 0, 253, 36))
                EXCEPT !.bus.ppu =
                  ticked(Res([@ EXCEPT !.ctrl = ctrl, !.status = status], FALSE, "none"),
                         255, times).st]
  /\ phase = "ready"
  /\ NoHistory
  /\ used = NoneUsed

\* ppu.tick(cycles): the history keeps the dots, and its name tells whether
\* the call returned frame_complete
PpuTick(cycles) ==
  /\ phase = "ready"
  /\ used.ticks < MaxPpuTicks
  /\ cpu' = [cpu EXCEPT !.bus.ppu = PPU_tick(@, cycles).st]
  /\ Record(IF PPU_tick(cpu.bus.ppu, cycles).v THEN "FrameComplete" ELSE "Ticked", cycles)
  /\ used' = [used EXCEPT !.ticks = @ + 1]
  /\ UNCHANGED phase

NextFrame == \E cycles \in FrameDots : PpuTick(cycles)

SpecFrame == InitFrame /\ [][NextFrame]_vars

\* the last operation was a call of tick
TickCalled == act.name \in {"Ticked", "FrameComplete"}

\* the last call of tick moved the scanline counter to 262
FrameWrapped ==
  /\ TickCalled
  /\ prev.bus.ppu.scanline = SCANLINES_PER_FRAME - 1
  /\ prev.bus.ppu.cycles + act.code >= DOTS_PER_SCANLINE

\* C34: when a PPU tick moves the scanline counter to 262, the counter wraps
\* to 0, the VBLANK bit and the sprite-0-hit bit of STATUS are both clear
\* afterwards, and that call, and only such a call, returns frame_complete
FrameEnds ==
  /\ FrameWrapped =>
       /\ cpu.bus.ppu.scanline = 0
       /\ ~Contains(cpu.bus.ppu.status, VBLANK_FLAG)
       /\ ~Contains(cpu.bus.ppu.status, SPRITE_ZERO_HIT)
       /\ act.name = "FrameComplete"
  /\ act.name = "FrameComplete" => FrameWrapped

\* C40: after any sequence of PPU tick(n) calls with n in 0..255 the dot
\* counter is in 0..340 and the scanline counter in 0..261; each call moves
\* the scanline on by at most one and the dot position by exactly n modulo 341
TickCounters ==
  /\ cpu.bus.ppu.cycles \in 0 .. DOTS_PER_SCANLINE - 1
  /\ cpu.bus.ppu.scanline \in 0 .. SCANLINES_PER_FRAME - 1
  /\ TickCalled =>
       /\ cpu.bus.ppu.cycles = (prev.bus.ppu.cycles + act.code) % DOTS_PER_SCANLINE
       /\ cpu.bus.ppu.scanline \in
            { prev.bus.ppu.scanline, (prev.bus.ppu.scanline + 1) % SCANLINES_PER_FRAME }

\* tick(255) at dot 249 of the last scanline: dot 163 of scanline 0
TickCountersWitness ==
  /\ TickCalled
  /\ act.code = 255
  /\ prev.bus.ppu.scanline = SCANLINES_PER_FRAME - 1
  /\ prev.bus.ppu.cycles = 249
  /\ cpu.bus.ppu.cycles = 163
  /\ cpu.bus.ppu.scanline = 0

====
